---- MODULE Spec2Model ----
(***************************************************************************)
(* A model of the pealim scraper's extraction-and-normalization core:      *)
(*   - the Transliteration Normalizer (applyTransliterationReplacement),   *)
(*   - the Form Extractor (extractFormData),                               *)
(*   - auxiliary-variant extraction (extractVariations),                   *)
(*   - the request handler POST that drives them.                          *)
(* Strings are sequences of characters.  Transliteration characters are    *)
(* one-character strings; Hebrew text is a sequence of Unicode code        *)
(* points, so that the diacritic range of NIQQUD_REGEX is a real range.    *)
(***************************************************************************)
EXTENDS Integers, Sequences, FiniteSets, TLC

\* ------------------------------------------------------------------------
\* Bounds of the model
\* ------------------------------------------------------------------------

\* Longest transliteration handed to the normalizer.
MaxLen == 4

\* How many times in a row the normalizer is applied to its own output.
MaxPasses == 2

\* Longest text of the pointed-spelling element (span.menukad).
MaxMenukad == 2

\* Longest text of the element's parent after the pointed-spelling element.
MaxAfter == 3

\* Most child nodes of the transliteration element (div.transcription).
MaxNodes == 3

\* Most nodes in the content stream of an auxiliary-forms panel.
MaxStream == 4

\* ------------------------------------------------------------------------
\* String helpers (JavaScript String semantics on sequences)
\* ------------------------------------------------------------------------

\* All sequences over S of length at most n.
SeqsUpTo(S, n) == UNION {[1..k -> S] : k \in 0..n}

\* pat occurs in s at 0-based index i.
OccursAt(s, pat, i) ==
    /\ i >= 0
    /\ i + Len(pat) <= Len(s)
    /\ \A j \in 1..Len(pat) : s[i + j] = pat[j]

\* String.prototype.indexOf(pat, from): the first index >= from, or -1.
RECURSIVE IndexOf(_, _, _)
IndexOf(s, pat, from) ==
    IF from + Len(pat) > Len(s) THEN -1
    ELSE IF OccursAt(s, pat, from) THEN from
    ELSE IndexOf(s, pat, from + 1)

\* String.prototype.includes(pat).
Includes(s, pat) == IndexOf(s, pat, 0) # -1

\* String.prototype.replace(/pat/g, rep): leftmost matches, scanning resumes
\* after the end of each match.
RECURSIVE ReplaceAll(_, _, _)
ReplaceAll(s, pat, rep) ==
    IF Len(s) = 0 THEN <<>>
    ELSE IF OccursAt(s, pat, 0)
         THEN rep \o ReplaceAll(SubSeq(s, Len(pat) + 1, Len(s)), pat, rep)
         ELSE <<Head(s)>> \o ReplaceAll(Tail(s), pat, rep)

\* String.prototype.trim(), sp being the white-space character of s.
RECURSIVE TrimStart(_, _)
TrimStart(s, sp) ==
    IF s # <<>> /\ Head(s) = sp THEN TrimStart(Tail(s), sp) ELSE s

RECURSIVE TrimEnd(_, _)
TrimEnd(s, sp) ==
    IF s # <<>> /\ s[Len(s)] = sp THEN TrimEnd(SubSeq(s, 1, Len(s) - 1), sp) ELSE s

Trim(s, sp) == TrimEnd(TrimStart(s, sp), sp)

\* String.prototype.split(sep) for a one-character separator: the segments
\* between every two occurrences of sep.
RECURSIVE Split(_, _)
Split(s, sep) ==
    LET i == IndexOf(s, <<sep>>, 0)
    IN  IF i = -1 THEN <<s>>
        ELSE <<SubSeq(s, 1, i)>> \o Split(SubSeq(s, i + 2, Len(s)), sep)

\* ------------------------------------------------------------------------
\* Transliteration Normalizer
\* ------------------------------------------------------------------------

\* CH_REGEX = /ch/g and TZ_REGEX = /tz/g
CH == <<"c", "h">>
TZ == <<"t", "z">>

\* A replaceChWithKh whose pattern is /h/g instead of /ch/g.
replaceChWithKh_EveryH(text) == ReplaceAll(text, <<"h">>, <<"k", "h">>)

\* A replaceChWithKh whose replacement is the single character 'k'.
replaceChWithK(text) == ReplaceAll(text, CH, <<"k">>)

replaceChWithKh(text) == ReplaceAll(text, CH, <<"k", "h">>)

replaceTzWithC(text) == ReplaceAll(text, TZ, <<"c">>)

\* A position scan that records only the first match (the loop left after
\* one iteration).
tzPositionsSkipMatch(text, searchIndex) ==
    LET index == IndexOf(text, TZ, searchIndex)
    IN  IF index = -1 THEN <<>> ELSE <<index>>

\* The while(true) loop of replaceTzWithCAndAdjustIndex: every index at which
\* 'tz' is found, the search resuming one character after each match.
RECURSIVE tzPositions(_, _)
tzPositions(text, searchIndex) ==
    LET index == IndexOf(text, TZ, searchIndex)
    IN  IF index = -1 THEN <<>>
        ELSE <<index>> \o tzPositions(text, index + 1)

\* The for loop: one decrement for each position before the accent index.
RECURSIVE adjustIndex(_, _, _)
adjustIndex(positions, accentIndex, adjustedIndex) ==
    IF positions = <<>> THEN adjustedIndex
    ELSE adjustIndex(Tail(positions), accentIndex,
                     IF Head(positions) < accentIndex
                     THEN adjustedIndex - 1 ELSE adjustedIndex)

\* A replaceTzWithCAndAdjustIndex that replaces the text and keeps the index
\* (what the earlier replaceTzWithC-only normalizer did).
replaceTzWithCAndKeepIndex(text, accentIndex) ==
    [text |-> ReplaceAll(text, TZ, <<"c">>), accentIndex |-> accentIndex]

\* A replaceTzWithCAndAdjustIndex that compares tzPos <= accentIndex.
replaceTzWithCAndAdjustIndexLeq(text, accentIndex) ==
    [text |-> ReplaceAll(text, TZ, <<"c">>),
     accentIndex |-> adjustIndex(tzPositions(text, 0), accentIndex + 1, accentIndex)]

replaceTzWithCAndAdjustIndex(text, accentIndex) ==
    [text |-> ReplaceAll(text, TZ, <<"c">>),
     accentIndex |-> adjustIndex(tzPositions(text, 0), accentIndex, accentIndex)]

\* A form has "variations" only when the list was attached to it.
HasVariations(form) == "variations" \in DOMAIN form

\* A normalizer that applies both substitutions whatever the flags are.
applyTransliterationReplacementAlways(form, chToKh, tzToC) ==
    LET chVar(v) == [v EXCEPT !.t = replaceChWithKh(v.t)]
        tzVar(v) == LET varResult == replaceTzWithCAndAdjustIndex(v.t, v.ti)
                    IN  [v EXCEPT !.t = varResult.text, !.ti = varResult.accentIndex]
        t1  == IF TRUE THEN replaceChWithKh(form.t) ELSE form.t
        result == replaceTzWithCAndAdjustIndex(t1, form.ti)
        processedT  == IF TRUE THEN result.text ELSE t1
        processedTI == IF TRUE THEN result.accentIndex ELSE form.ti
        base == [form EXCEPT !.t = processedT, !.ti = processedTI]
    IN  IF HasVariations(form)
        THEN LET v0 == form.variations
                 v1 == IF TRUE THEN [i \in 1..Len(v0) |-> chVar(v0[i])] ELSE v0
                 v2 == IF TRUE THEN [i \in 1..Len(v1) |-> tzVar(v1[i])] ELSE v1
             IN  [base EXCEPT !.variations = v2]
        ELSE base

applyTransliterationReplacement(form, chToKh, tzToC) ==
    LET chVar(v) == [v EXCEPT !.t = replaceChWithKh(v.t)]
        tzVar(v) == LET varResult == replaceTzWithCAndAdjustIndex(v.t, v.ti)
                    IN  [v EXCEPT !.t = varResult.text, !.ti = varResult.accentIndex]
        t1  == IF chToKh THEN replaceChWithKh(form.t) ELSE form.t
        result == replaceTzWithCAndAdjustIndex(t1, form.ti)
        processedT  == IF tzToC THEN result.text ELSE t1
        processedTI == IF tzToC THEN result.accentIndex ELSE form.ti
        base == [form EXCEPT !.t = processedT, !.ti = processedTI]
    IN  IF HasVariations(form)
        THEN LET v0 == form.variations
                 v1 == IF chToKh THEN [i \in 1..Len(v0) |-> chVar(v0[i])] ELSE v0
                 v2 == IF tzToC THEN [i \in 1..Len(v1) |-> tzVar(v1[i])] ELSE v1
             IN  [base EXCEPT !.variations = v2]
        ELSE base

\* ------------------------------------------------------------------------
\* State
\* ------------------------------------------------------------------------

VARIABLES
    nForm,       \* normalizer: the form as it stands (input, then each output)
    nPrev,       \* normalizer: the form the last pass was applied to
    useChToKh,   \* request flag: Substitution A (ch -> kh)
    useTzToC,    \* request flag: Substitution B (tz -> c)
    nPasses,     \* normalizer: passes applied so far
    eDiv,        \* extractor: the subtree handed to extractFormData
    eOut,        \* extractor: the record extractFormData returned
    ePc,         \* extractor: "ready" before the call, "done" after it
    vTd,         \* variations: the table cell handed to extractVariations
    vFilterUnstressedEnding,  \* variations: argument filterUnstressedEnding
    vFilterModernLanguage,    \* variations: argument filterModernLanguage
    vOut,        \* variations: the list extractVariations returned
    vPc,         \* variations: "ready" before the call, "done" after it
    request,     \* POST: the request body (url, partOfSpeech)
    page,        \* POST: what fetch(url) answers, and the document it holds
    pPc,         \* POST: "received", "fetched" after the fetch, "responded"
    result,      \* POST: the aggregate record (ParseResult) once it is built
    html,        \* POST: whether generateHTML returned and saveHTMLFile wrote
    response     \* POST: the response returned (status and body)

normVars == <<nForm, nPrev, useChToKh, useTzToC, nPasses>>

extVars == <<eDiv, eOut, ePc>>

varVars == <<vTd, vFilterUnstressedEnding, vFilterModernLanguage, vOut, vPc>>

postVars == <<request, page, pPc, result, html, response>>

vars == <<nForm, nPrev, useChToKh, useTzToC, nPasses, eDiv, eOut, ePc,
          vTd, vFilterUnstressedEnding, vFilterModernLanguage, vOut, vPc,
          request, page, pPc, result, html, response>>

\* { h: "", hn: "", t: "", ti: 0 }
EmptyForm == [h |-> <<>>, hn |-> <<>>, t |-> <<>>, ti |-> 0]

\* An empty selection: no pointed-spelling element, no transliteration element.
NoDiv ==
    [hasMenukad |-> FALSE, before |-> <<>>, menukad |-> <<>>, after |-> <<>>,
     hasTranscription |-> FALSE, contents |-> <<>>]

\* The components a specification does not exercise stay as constructed.
NormalizerIdle ==
    /\ nForm = EmptyForm /\ nPrev = EmptyForm
    /\ useChToKh = TRUE /\ useTzToC = TRUE
    /\ nPasses = 0

ExtractorIdle ==
    /\ eDiv = NoDiv /\ eOut = EmptyForm /\ ePc = "idle"

\* A table cell without an auxiliary-forms panel.
NoPanelTd == [hasPanel |-> FALSE, inPopover |-> FALSE, stream |-> <<>>]

VariationsIdle ==
    /\ vTd = NoPanelTd
    /\ vFilterUnstressedEnding = FALSE /\ vFilterModernLanguage = FALSE
    /\ vOut = <<>> /\ vPc = "idle"

\* No request received: nothing fetched, no aggregate, nothing rendered or
\* saved, no response.
NoRequest == [url |-> "", partOfSpeech |-> ""]

NoPage == [fetch |-> "none"]

NoResult == [pos |-> ""]

NoHtml == [generated |-> FALSE, saved |-> FALSE, tables |-> <<>>]

NoResponse == [status |-> 0]

PostIdle ==
    /\ request = NoRequest /\ page = NoPage /\ pPc = "idle"
    /\ result = NoResult /\ html = NoHtml /\ response = NoResponse

\* ------------------------------------------------------------------------
\* Normalizer: inputs and the pass
\* ------------------------------------------------------------------------

\* Characters of the transliterations fed to the normalizer: the letters of
\* the two patterns ("ch", "tz"); 'k' only ever appears in outputs.
TAlphabet == {"t", "z", "c", "h"}

\* Hebrew spellings carried along by the normalizer (alef + qamats, alef).
PointedSample == <<1488, 1464>>
UnpointedSample == <<1488>>

MkForm(t, ti) == [h |-> UnpointedSample, hn |-> PointedSample, t |-> t, ti |-> ti]

\* Every transliteration of length k with every offset the extractor can
\* hand over for it (0 .. length, the upper end when the marker is not a
\* direct child or the text was trimmed).
AllForms(k) == {MkForm(t, ti) : t \in [1..k -> TAlphabet], ti \in 0..k}

\* The companion form used beside the exhaustively enumerated one: "tzchtz"
\* stressed on its last character.
SampleForms == {MkForm(<<"t", "z", "c", "h", "t", "z">>, 5)}

WithVariations(form, vs) ==
    [h |-> form.h, hn |-> form.hn, t |-> form.t, ti |-> form.ti, variations |-> vs]

\* The forms the request handler passes to applyTransliterationReplacement:
\* without a variations list, or with one or two Variants.
NormalizerInputs(k) ==
    AllForms(k)
    \cup {WithVariations(p, <<v>>) : p \in SampleForms, v \in AllForms(k)}
    \cup {WithVariations(p, <<v, w>>) :
            p \in SampleForms, v \in AllForms(k), w \in SampleForms}

InitNormalize ==
    /\ \E k \in 0..MaxLen : nForm \in NormalizerInputs(k)
    /\ nPrev = EmptyForm
    /\ useChToKh \in BOOLEAN
    /\ useTzToC \in BOOLEAN
    /\ nPasses = 0
    /\ ExtractorIdle
    /\ VariationsIdle
    /\ PostIdle

\* One call of applyTransliterationReplacement on the current form.
ApplyNormalizer ==
    /\ nPasses < MaxPasses
    /\ nPrev' = nForm
    /\ nForm' = applyTransliterationReplacement(nForm, useChToKh, useTzToC)
    /\ nPasses' = nPasses + 1
    /\ UNCHANGED <<useChToKh, useTzToC>>
    /\ UNCHANGED <<extVars, varVars, postVars>>

NextNormalize == ApplyNormalizer

SpecNormalize == InitNormalize /\ [][NextNormalize]_vars

\* ========================================================================
\* Properties of the Transliteration Normalizer
\* ========================================================================

\* 0 <= stressOffset < length(transliteration), transliteration non-empty.
InBounds(f) == Len(f.t) > 0 /\ 0 <= f.ti /\ f.ti < Len(f.t)

\* The text Substitution B reads: the input after Substitution A, if enabled.
AfterA(t) == IF useChToKh THEN replaceChWithKh(t) ELSE t

\* The primary form and every Variant, each paired with its predecessor.
NormPairs ==
    {<<nPrev, nForm>>}
    \cup (IF HasVariations(nPrev)
          THEN {<<nPrev.variations[i], nForm.variations[i]>> :
                    i \in 1..Len(nPrev.variations)}
          ELSE {})

\* The 0-based indexes at which "tz" starts in t.
TzStarts(t) == {p \in 0..(Len(t) - 2) : t[p + 1] = "t" /\ t[p + 2] = "z"}

\* t with every "tz" replaced by "c", stated position by position: a
\* position survives unless it is the 'z' of a "tz"; the 't' of a "tz"
\* survives as 'c'.
TzReplaced(t) ==
    LET kept == {p \in 0..(Len(t) - 1) : (p - 1) \notin TzStarts(t)}
        at(k) == CHOOSE p \in kept : Cardinality({q \in kept : q < p}) = k - 1
    IN  [k \in 1..Cardinality(kept) |->
            IF at(k) \in TzStarts(t) THEN "c" ELSE t[at(k) + 1]]

\* C1: normalization preserves the stress-offset bound: a Form or Variant
\* with non-empty transliteration and 0 <= stressOffset < length keeps
\* 0 <= stressOffset < length after applyTransliterationReplacement, for
\* every combination of the two flags.
C1_BoundPreserved ==
    nPasses >= 1 =>
        \A pr \in NormPairs : InBounds(pr[1]) => InBounds(pr[2])

\* A pass with both substitutions moved the offset of an in-bounds primary
\* form and of an in-bounds Variant.
C1_Witness ==
    /\ nPasses = 1 /\ useChToKh /\ useTzToC
    /\ InBounds(nPrev) /\ nForm.ti < nPrev.ti
    /\ HasVariations(nPrev)
    /\ InBounds(nPrev.variations[1])
    /\ nForm.variations[1].ti < nPrev.variations[1].ti

\* C3: Substitution B on text t and offset i returns t with every "tz"
\* replaced by "c" and i minus the number of positions p < i at which "tz"
\* starts in t; {"tzohev", 3} yields {"cohev", 2}.
C3_SubstitutionB ==
    /\ (nPasses >= 1 /\ useTzToC) =>
          \A pr \in NormPairs :
              LET t == AfterA(pr[1].t)
              IN  /\ pr[2].t = TzReplaced(t)
                  /\ pr[2].ti =
                        pr[1].ti - Cardinality({p \in TzStarts(t) : p < pr[1].ti})
    /\ replaceTzWithCAndAdjustIndex(<<"t", "z", "o", "h", "e", "v">>, 3)
          = [text |-> <<"c", "o", "h", "e", "v">>, accentIndex |-> 2]

\* Substitution B alone replaced a "tz" that starts before the offset, in the
\* primary form and in a Variant.
C3_Witness ==
    /\ nPasses = 1 /\ useTzToC /\ ~useChToKh
    /\ \E p \in TzStarts(nPrev.t) : p < nPrev.ti
    /\ Len(nForm.t) < Len(nPrev.t)
    /\ HasVariations(nPrev)
    /\ Len(nPrev.variations) = 2
    /\ \E p \in TzStarts(nPrev.variations[2].t) : p < nPrev.variations[2].ti

\* C4: after Substitution B the offset indexes the same logical character:
\* a character outside every "tz" is found unchanged at the new offset, and
\* the 't' or 'z' of a "tz" is found as the 'c' that replaced that "tz".
\* Holds for the primary Form and each Variant.
C4_SameLogicalCharacter ==
    (nPasses >= 1 /\ useTzToC) =>
        \A pr \in NormPairs :
            LET t  == AfterA(pr[1].t)
                i  == pr[1].ti
                t2 == pr[2].t
                i2 == pr[2].ti
                \* where the "tz" starting at p ends up
                landing(p) == p - Cardinality({q \in TzStarts(t) : q < p})
            IN  (0 <= i /\ i < Len(t)) =>
                  /\ 0 <= i2 /\ i2 < Len(t2)
                  /\ (i \notin TzStarts(t) /\ (i - 1) \notin TzStarts(t))
                        => t2[i2 + 1] = t[i + 1]
                  /\ i \in TzStarts(t)
                        => (t2[i2 + 1] = "c" /\ i2 = landing(i))
                  /\ (i - 1) \in TzStarts(t)
                        => (t2[i2 + 1] = "c" /\ i2 = landing(i - 1))

\* The offset pointed at the 'z' of a "tz", and a Variant's offset pointed at
\* a plain character after a "tz".
C4_Witness ==
    /\ nPasses = 1 /\ useTzToC
    /\ (nPrev.ti - 1) \in TzStarts(AfterA(nPrev.t))
    /\ HasVariations(nPrev)
    /\ LET v == nPrev.variations[1]
       IN  /\ v.ti < Len(v.t)
           /\ v.ti \notin TzStarts(v.t) /\ (v.ti - 1) \notin TzStarts(v.t)
           /\ \E p \in TzStarts(v.t) : p < v.ti

\* C5: Substitution A is idempotent: with useChToKh = true and
\* useTzToC = false, a second applyTransliterationReplacement returns the
\* record the first one returned (primary Form and Variants).
C5_SubstitutionAIdempotent ==
    (nPasses >= 2 /\ useChToKh /\ ~useTzToC) => nForm = nPrev

\* A second pass of Substitution A ran on a record whose primary form and
\* Variant both had a "ch" replaced by the first pass.
C5_Witness ==
    /\ nPasses = 2 /\ useChToKh /\ ~useTzToC
    /\ Includes(nForm.t, <<"k", "h">>)
    /\ HasVariations(nForm)
    /\ Includes(nForm.variations[1].t, <<"k", "h">>)

\* t with every "ch" replaced by "kh", stated position by position: the
\* 'c' of a "ch" becomes 'k', every other position is kept.
ChReplaced(t) ==
    [k \in 1..Len(t) |->
        IF t[k] = "c" /\ k < Len(t) /\ t[k + 1] = "h" THEN "k" ELSE t[k]]

\* C13: skipped passes change nothing.  With both flags false the primary
\* Form and every Variant come back with the transliteration and the stress
\* offset they had (the record is the one handed in); with Substitution A
\* alone only "ch" is replaced, every "tz" stays and no offset changes; with
\* Substitution B alone only "tz" is replaced and every "ch" stays.
C13_SkippedPassesChangeNothing ==
    nPasses >= 1 =>
        /\ (~useChToKh /\ ~useTzToC) => nForm = nPrev
        /\ \A pr \in NormPairs :
              /\ pr[2].h = pr[1].h /\ pr[2].hn = pr[1].hn
              /\ (~useChToKh /\ ~useTzToC) =>
                    pr[2].t = pr[1].t /\ pr[2].ti = pr[1].ti
              /\ (useChToKh /\ ~useTzToC) =>
                    /\ pr[2].t = ChReplaced(pr[1].t)
                    /\ pr[2].ti = pr[1].ti
                    /\ TzStarts(pr[2].t) = TzStarts(pr[1].t)
              /\ (~useChToKh /\ useTzToC) =>
                    pr[2].t = TzReplaced(pr[1].t)

\* A pass with the flags off returned a record holding "ch" and "tz" before
\* the stress, in the primary form and in a Variant; and passes with one
\* flag on ran on such records too.
C13_Witness ==
    /\ nPasses = 1 /\ ~useChToKh /\ ~useTzToC
    /\ HasVariations(nPrev)
    /\ \A pr \in NormPairs :
          /\ Includes(pr[1].t, CH) /\ \E p \in TzStarts(pr[1].t) : p < pr[1].ti
          /\ pr[2].t = pr[1].t /\ pr[2].ti = pr[1].ti

\* C24: Substitution A changes only transliteration text: with
\* useChToKh = true and useTzToC = false the result has every "ch" replaced
\* by "kh" and the same transliteration length, and the stress offset, the
\* pointed spelling, the unpointed spelling and the number and order of
\* Variants are unchanged, for the primary Form and each Variant.
C24_SubstitutionAFrame ==
    (nPasses >= 1 /\ useChToKh /\ ~useTzToC) =>
        /\ HasVariations(nForm) = HasVariations(nPrev)
        /\ HasVariations(nPrev) =>
              Len(nForm.variations) = Len(nPrev.variations)
        /\ \A pr \in NormPairs :
              /\ ~Includes(pr[2].t, CH)
              /\ pr[2].t = ChReplaced(pr[1].t)
              /\ Len(pr[2].t) = Len(pr[1].t)
              /\ pr[2].ti = pr[1].ti
              /\ pr[2].hn = pr[1].hn
              /\ pr[2].h = pr[1].h

\* Substitution A alone replaced a "ch" before the stress in the primary
\* form and in the first of two different Variants.
C24_Witness ==
    /\ nPasses = 1 /\ useChToKh /\ ~useTzToC
    /\ HasVariations(nPrev) /\ Len(nPrev.variations) = 2
    /\ nPrev.variations[1].t # nPrev.variations[2].t
    /\ \A pr \in NormPairs :
          /\ Includes(pr[1].t, CH) /\ IndexOf(pr[1].t, CH, 0) < pr[1].ti
          /\ pr[2].t # pr[1].t

\* C26: the whole normalizer is idempotent: with both flags true, applying
\* applyTransliterationReplacement to its own output returns that output
\* unchanged, transliteration and stress offset of the primary Form and of
\* each Variant.
C26_NormalizerIdempotent ==
    (nPasses >= 2 /\ useChToKh /\ useTzToC) =>
        \A pr \in NormPairs : pr[2].t = pr[1].t /\ pr[2].ti = pr[1].ti

\* The same statement for the outputs in which Substitution B produced no
\* "ch" (no "tz" stood in front of an 'h').
NormalizerIdempotent_NoNewCh ==
    (nPasses >= 2 /\ useChToKh /\ useTzToC) =>
        \A pr \in NormPairs :
            ~Includes(pr[1].t, CH) => (pr[2].t = pr[1].t /\ pr[2].ti = pr[1].ti)

\* A second pass with both flags ran on an output holding a 'c' that
\* replaced a "tz" and a "kh" that replaced a "ch", and changed nothing.
NormalizerIdempotent_NoNewChReached ==
    /\ nPasses = 2 /\ useChToKh /\ useTzToC
    /\ Includes(nPrev.t, <<"c">>) /\ Includes(nPrev.t, <<"k", "h">>)
    /\ nForm = nPrev

\* ========================================================================
\* Form Extractor (extractFormData)
\* ========================================================================

\* Code points: space, the separator marker '~', and the range of
\* NIQQUD_REGEX = /[\u0591-\u05C7]/g.
SPACE == 32
TILDE == 126
NiqqudFirst == 1425
NiqqudLast == 1479

IsNiqqud(c) == NiqqudFirst <= c /\ c <= NiqqudLast

\* hn.replace(NIQQUD_REGEX, "") with the g flag missing: only the first
\* diacritic is removed.
RECURSIVE stripNiqqudFirstOnly(_)
stripNiqqudFirstOnly(s) ==
    IF s = <<>> THEN <<>>
    ELSE IF IsNiqqud(Head(s)) THEN Tail(s)
    ELSE <<Head(s)>> \o stripNiqqudFirstOnly(Tail(s))

\* hn.replace(NIQQUD_REGEX, ""): every match of the character class removed.
RECURSIVE stripNiqqud(_)
stripNiqqud(s) ==
    IF s = <<>> THEN <<>>
    ELSE IF IsNiqqud(Head(s)) THEN stripNiqqud(Tail(s))
    ELSE <<Head(s)>> \o stripNiqqud(Tail(s))

\* Nodes of the document tree under the transliteration element.
TextNode(data) == [type |-> "text", data |-> data]
TagNode(name, kids) == [type |-> "tag", name |-> name, kids |-> kids]

\* .text(): the text nodes of the subtrees, concatenated in document order.
RECURSIVE TextOf(_)
TextOf(nodes) ==
    IF nodes = <<>> THEN <<>>
    ELSE (IF Head(nodes).type = "text" THEN Head(nodes).data
          ELSE TextOf(Head(nodes).kids))
         \o TextOf(Tail(nodes))

\* .find(name).first(): the path (child indexes) of the first element named
\* name in document order, <<>> when there is none.
RECURSIVE FindFirstFrom(_, _, _)
FindFirstFrom(nodes, name, i) ==
    IF i > Len(nodes) THEN <<>>
    ELSE IF nodes[i].type # "tag" THEN FindFirstFrom(nodes, name, i + 1)
    ELSE IF nodes[i].name = name THEN <<i>>
    ELSE LET below == FindFirstFrom(nodes[i].kids, name, 1)
         IN  IF below # <<>> THEN <<i>> \o below
             ELSE FindFirstFrom(nodes, name, i + 1)

FindFirst(nodes, name) == FindFirstFrom(nodes, name, 1)

\* The .contents().each loop: the text of the direct children, up to the
\* child that is the bold element itself.
RECURSIVE textBeforeBold(_, _, _)
textBeforeBold(nodes, boldElement, i) ==
    IF i > Len(nodes) THEN <<>>
    ELSE IF <<i>> = boldElement THEN <<>>
    ELSE TextOf(<<nodes[i]>>) \o textBeforeBold(nodes, boldElement, i + 1)

\* The pointed/unpointed part of extractFormData: the span's text, the
\* parent's text, the tilde split or the diacritic strip.
extractHebrew(div) ==
    LET candidate  == IF div.hasMenukad THEN Trim(div.menukad, SPACE) ELSE <<>>
        hebrewText == IF div.hasMenukad
                      THEN Trim(div.before \o div.menukad \o div.after, SPACE)
                      ELSE <<>>
        parts == [i \in 1..Len(Split(hebrewText, TILDE)) |->
                     Trim(Split(hebrewText, TILDE)[i], SPACE)]
    IN  IF Includes(hebrewText, <<TILDE>>)
        THEN [hn |-> IF parts[1] # <<>> THEN parts[1] ELSE candidate,
              h  |-> IF Len(parts) >= 2 /\ parts[2] # <<>> THEN parts[2] ELSE <<>>]
        ELSE [hn |-> candidate, h |-> stripNiqqud(candidate)]

\* The transliteration part: the trimmed text and the length of the text
\* before the bold element.
extractTransliteration(div) ==
    LET nodes == IF div.hasTranscription THEN div.contents ELSE <<>>
        boldElement == FindFirst(nodes, "b")
    IN  [t  |-> Trim(TextOf(nodes), " "),
         ti |-> IF boldElement # <<>>
                THEN Len(textBeforeBold(nodes, boldElement, 1))
                ELSE 0]

extractFormData(div) ==
    [h  |-> extractHebrew(div).h,
     hn |-> extractHebrew(div).hn,
     t  |-> extractTransliteration(div).t,
     ti |-> extractTransliteration(div).ti]

\* --- the documents the extractor is run on ---

\* Hebrew text: space, '~', a diacritic (qamats), a letter (alef).
HAlphabet == {32, 126, 1464, 1488}

\* Text after the pointed-spelling element: unpointed, so no diacritic.
AfterAlphabet == {32, 126, 1488}

\* Spellings at the edges of the diacritic range (U+0590, U+0591, U+05C7,
\* U+05C8 around a letter), and a letter between two diacritics.
EdgeSpellings == {<<1424, 1488, 1425>>, <<1479, 1488, 1480>>, <<1464, 1488, 1464>>}

\* Children of the transliteration element: text with and without white
\* space, the bold element, a tag with a nested bold element, a plain tag.
NodePool ==
    {TextNode(<<" ">>), TextNode(<<"a">>), TextNode(<<" ", "a">>),
     TagNode("b", <<TextNode(<<"a">>)>>),
     TagNode("span", <<TextNode(<<"a">>), TagNode("b", <<TextNode(<<"a">>)>>)>>),
     TagNode("span", <<TextNode(<<"a">>)>>)}

\* pat<b>u</b>r as on the source pages, and its plain (no emphasis) form.
SampleContents ==
    {<<TextNode(<<"a">>), TagNode("b", <<TextNode(<<"a">>)>>), TextNode(<<"a">>)>>,
     <<TextNode(<<"a", "a">>)>>}

MkDiv(before, menukad, after, contents) ==
    [hasMenukad |-> TRUE, before |-> before, menukad |-> menukad, after |-> after,
     hasTranscription |-> TRUE, contents |-> contents]

\* Subtrees handed to extractFormData: every Hebrew text with a sample
\* transliteration, every transliteration element with a sample spelling,
\* and subtrees lacking one element or both.
ExtractorInputs(kb, km, ka, kc) ==
    {MkDiv(b, m, a, c) :
        b \in [1..kb -> HAlphabet], m \in [1..km -> HAlphabet],
        a \in [1..ka -> AfterAlphabet], c \in SampleContents}
    \cup {MkDiv(<<>>, m, <<>>, c) : m \in EdgeSpellings, c \in SampleContents}
    \cup {MkDiv(<<>>, <<1488, 1464>>, <<>>, c) : c \in [1..kc -> NodePool]}
    \cup {[MkDiv(<<>>, <<1488, 1464>>, <<>>, c) EXCEPT !.hasMenukad = FALSE] :
            c \in SampleContents}
    \cup {[MkDiv(<<>>, m, <<>>, <<>>) EXCEPT !.hasTranscription = FALSE] :
            m \in EdgeSpellings}
    \cup {NoDiv}

InitExtract ==
    /\ \E kb \in 0..1, km \in 0..MaxMenukad, ka \in 0..MaxAfter, kc \in 0..MaxNodes :
          eDiv \in ExtractorInputs(kb, km, ka, kc)
    /\ eOut = EmptyForm
    /\ ePc = "ready"
    /\ NormalizerIdle
    /\ VariationsIdle
    /\ PostIdle

\* The call extractFormData(formDiv, $).
ExtractForm ==
    /\ ePc = "ready"
    /\ eOut' = extractFormData(eDiv)
    /\ ePc' = "done"
    /\ UNCHANGED eDiv
    /\ UNCHANGED <<normVars, varVars, postVars>>

NextExtract == ExtractForm

SpecExtract == InitExtract /\ [][NextExtract]_vars

\* ========================================================================
\* Properties of the Form Extractor
\* ========================================================================

\* The trimmed text of the parent of the pointed-spelling element.
ParentText == Trim(eDiv.before \o eDiv.menukad \o eDiv.after, SPACE)

HasMarker == eDiv.hasMenukad /\ Includes(ParentText, <<TILDE>>)

HasEmphasis == eDiv.hasTranscription /\ FindFirst(eDiv.contents, "b") # <<>>

\* C2: every Form extracted from a transliteration element that contains
\* an emphasis (<b>) sub-element and has non-empty transliteration satisfies
\* 0 <= stressOffset < length(transliteration), the transliteration being the
\* trimmed element text, whatever the shape of the element's content.
C2_ExtractedOffsetInBounds ==
    (ePc = "done" /\ HasEmphasis /\ eOut.t # <<>>) =>
        (0 <= eOut.ti /\ eOut.ti < Len(eOut.t))

\* C6: when the parent text contains the separator marker it is split in two
\* at the FIRST marker: the pointed spelling is the trimmed text before it,
\* the unpointed spelling the trimmed text of everything after it.
C6_SplitAtFirstMarker ==
    (ePc = "done" /\ HasMarker) =>
        LET i == IndexOf(ParentText, <<TILDE>>, 0)
        IN  /\ eOut.hn = Trim(SubSeq(ParentText, 1, i), SPACE)
            /\ eOut.h = Trim(SubSeq(ParentText, i + 2, Len(ParentText)), SPACE)

\* The pointed spelling without the code points U+0591..U+05C7.
WithoutDiacritics(s) ==
    LET Keep(c) == ~(c \in 1425..1479) IN SelectSeq(s, Keep)

\* C7 as stated: with no separator marker in the parent text, the unpointed
\* spelling is the pointed spelling with every code point of U+0591..U+05C7
\* removed, and it is non-empty whenever the pointed spelling is non-empty.
C7_AsStated ==
    (ePc = "done" /\ ~HasMarker) =>
        /\ eOut.h = WithoutDiacritics(eOut.hn)
        /\ eOut.hn # <<>> => eOut.h # <<>>

\* C7 (amended): with no separator marker in the parent text, the unpointed
\* spelling is the pointed spelling with every code point of U+0591..U+05C7
\* removed, and it is non-empty whenever the pointed spelling holds at least
\* one code point outside that range.
C7_StripDiacritics ==
    (ePc = "done" /\ ~HasMarker) =>
        /\ eOut.h = WithoutDiacritics(eOut.hn)
        /\ (\E i \in 1..Len(eOut.hn) : ~(eOut.hn[i] \in 1425..1479))
              => eOut.h # <<>>

\* A pointed spelling with two diacritics and a letter was stripped.
C7_Witness ==
    /\ ePc = "done" /\ ~HasMarker
    /\ Len(eOut.hn) = 3 /\ Len(eOut.h) = 1

\* The text of the transliteration element that precedes, in document
\* order, the element at path (child indexes from the top).
RECURSIVE PrecedingText(_, _)
PrecedingText(nodes, path) ==
    IF path = <<>> THEN <<>>
    ELSE TextOf(SubSeq(nodes, 1, Head(path) - 1))
         \o PrecedingText(nodes[Head(path)].kids, Tail(path))

\* The stress offset as the statement gives it: the length of the text
\* before the first emphasis element, 0 without one.
OffsetAsStated ==
    IF HasEmphasis
    THEN Len(PrecedingText(eDiv.contents, FindFirst(eDiv.contents, "b")))
    ELSE 0

\* C23: stress-offset computation: when the transliteration element contains
\* an emphasis sub-element, found anywhere inside it, the stress offset is the
\* character length of all text of the element that precedes that sub-element
\* in document order; without an emphasis sub-element the offset is 0.
C23_StressOffset == ePc = "done" => eOut.ti = OffsetAsStated

\* The same statement when the emphasis element is a direct child of the
\* transliteration element, or absent.
StressOffset_DirectChild ==
    (ePc = "done" /\ Len(FindFirst(eDiv.contents, "b")) <= 1) =>
        eOut.ti = OffsetAsStated

\* An offset was computed past text and an element in front of an emphasis
\* element that is a direct child.
StressOffset_DirectChildReached ==
    /\ ePc = "done" /\ HasEmphasis
    /\ FindFirst(eDiv.contents, "b") = <<3>>
    /\ eDiv.contents[2].type = "tag"
    /\ eOut.ti >= 2

\* ========================================================================
\* Auxiliary-variant extraction (extractVariations)
\* ========================================================================

\* The two fixed sentence fragments; a text is a sequence of tokens, each
\* fragment one token.
ModernLanguageText == <<"In modern language, the masculine form is generally used">>
UnstressedEndingText == <<"The ending is usually unstressed in spoken language">>

\* A child div of the panel.  idDiv: it contains a div carrying one of the
\* recognized form identifiers, and form is that div; otherwise form is what
\* the child div itself holds.  tTag: the tag of the transliteration element
\* (div.transcription or span.transcription).  note: other text inside it.
Block(idDiv, form, tTag, note) ==
    [type |-> "tag", name |-> "div", idDiv |-> idDiv, form |-> form,
     tTag |-> tTag, note |-> note]

\* A child element of the panel that is not a div.
OtherTag == [type |-> "tag", name |-> "span", note |-> <<>>]

\* A child element of the panel that is not a div and holds a form.
OtherBlock(form) ==
    [type |-> "tag", name |-> "p", idDiv |-> FALSE, form |-> form,
     tTag |-> "div", note |-> <<>>]

\* variationContainer.text(): the sentence tokens of the panel, those of its
\* direct text nodes and those inside its child elements (spellings and
\* transliterations hold none).
RECURSIVE containerText(_)
containerText(stream) ==
    IF stream = <<>> THEN <<>>
    ELSE (IF Head(stream).type = "text" THEN Head(stream).data
          ELSE Head(stream).note)
         \o containerText(Tail(stream))

\* extractFormData does not look for span.transcription.
AsSeenByExtractFormData(block) ==
    IF block.tTag = "div" THEN block.form
    ELSE [block.form EXCEPT !.hasTranscription = FALSE]

\* processDiv: the Variants one child div contributes.
processDiv(block) ==
    IF block.idDiv
    THEN <<extractFormData(AsSeenByExtractFormData(block))>>
    ELSE IF block.form.hasMenukad
         THEN <<[h  |-> extractHebrew(block.form).h,
                 hn |-> extractHebrew(block.form).hn,
                 t  |-> extractTransliteration(block.form).t,
                 ti |-> extractTransliteration(block.form).ti]>>
         ELSE <<>>

\* processChildren in reverse document order.
RECURSIVE processChildrenReversed(_)
processChildrenReversed(stream) ==
    IF stream = <<>> THEN <<>>
    ELSE processChildrenReversed(Tail(stream))
         \o (IF Head(stream).type = "tag" /\ Head(stream).name = "div"
             THEN processDiv(Head(stream)) ELSE <<>>)

\* variationContainer.children("div").each(processDiv)
RECURSIVE processChildren(_)
processChildren(stream) ==
    IF stream = <<>> THEN <<>>
    ELSE (IF Head(stream).type = "tag" /\ Head(stream).name = "div"
          THEN processDiv(Head(stream)) ELSE <<>>)
         \o processChildren(Tail(stream))

\* A scan that never leaves the skipping state once the sentence was seen.
RECURSIVE scanContentsNoResume(_, _, _)
scanContentsNoResume(stream, filterText, skipUntilNextText) ==
    IF stream = <<>> THEN <<>>
    ELSE LET node == Head(stream)
         IN  IF node.type = "text"
             THEN scanContentsNoResume(Tail(stream), filterText,
                     skipUntilNextText \/ Includes(Trim(node.data, " "), filterText))
             ELSE (IF node.name = "div" /\ ~skipUntilNextText
                   THEN processDiv(node) ELSE <<>>)
                  \o scanContentsNoResume(Tail(stream), filterText, skipUntilNextText)

\* A scan that also takes the sentence inside a child element for the
\* sentence.
RECURSIVE scanContentsAnyText(_, _, _)
scanContentsAnyText(stream, filterText, skipUntilNextText) ==
    IF stream = <<>> THEN <<>>
    ELSE LET node == Head(stream)
             text == Trim(IF node.type = "text" THEN node.data ELSE node.note, " ")
             skip == IF Includes(text, filterText) THEN TRUE
                     ELSE IF node.type = "text" /\ skipUntilNextText /\ text # <<>>
                          THEN FALSE
                     ELSE skipUntilNextText
         IN  (IF node.type = "tag" /\ node.name = "div" /\ ~skip
              THEN processDiv(node) ELSE <<>>)
             \o scanContentsAnyText(Tail(stream), filterText, skip)

\* variationContainer.contents().each(...): the filtering scan.
RECURSIVE scanContents(_, _, _)
scanContents(stream, filterText, skipUntilNextText) ==
    IF stream = <<>> THEN <<>>
    ELSE LET node == Head(stream)
             text == Trim(node.data, " ")
         IN  IF node.type = "text"
             THEN scanContents(Tail(stream), filterText,
                     IF Includes(text, filterText) THEN TRUE
                     ELSE IF skipUntilNextText /\ text # <<>> THEN FALSE
                     ELSE skipUntilNextText)
             ELSE (IF node.name = "div" /\ ~skipUntilNextText
                   THEN processDiv(node) ELSE <<>>)
                  \o scanContents(Tail(stream), filterText, skipUntilNextText)

extractVariations(td, filterUnstressedEnding, filterModernLanguage) ==
    IF ~td.hasPanel THEN <<>>
    ELSE LET text == Trim(containerText(td.stream), " ")
             shouldFilterModernLanguage ==
                 filterModernLanguage /\ Includes(text, ModernLanguageText)
             shouldFilterUnstressedEnding ==
                 filterUnstressedEnding /\ Includes(text, UnstressedEndingText)
             filterText == IF shouldFilterModernLanguage
                           THEN ModernLanguageText ELSE UnstressedEndingText
         IN  IF ~shouldFilterModernLanguage /\ ~shouldFilterUnstressedEnding
             THEN processChildren(td.stream)
             ELSE scanContents(td.stream, filterText, FALSE)

\* --- the panels extractVariations is run on ---

\* The spelling of the variant block at position i of the stream: each block
\* has a letter of its own (bet, gimel, ...), pointed with qamats.
BlockSpelling(i) == <<1488 + i, 1464>>

BlockForm(i) ==
    MkDiv(<<>>, BlockSpelling(i), <<>>,
          <<TextNode(<<"a">>), TagNode("b", <<TextNode(<<"a">>)>>)>>)

\* What a position of the stream can hold: a blank text node, plain text,
\* either sentence, a variant block with an identified form div, a variant
\* block found by the fallback, the same with the modern-language sentence
\* inside it, a div with no spelling, an element that is not a div, an
\* element that is not a div with a form in it.
StreamKinds ==
    {"blank", "text", "modern", "unstressed",
     "idBlock", "plainBlock", "noteBlock", "emptyDiv", "other", "otherBlock"}

TextNodeKinds == {"blank", "text", "modern", "unstressed"}

VariantBlockKinds == {"idBlock", "plainBlock", "noteBlock"}

StreamNode(kind, i) ==
    CASE kind = "blank"      -> TextNode(<<" ">>)
      [] kind = "text"       -> TextNode(<<"Alternative form:">>)
      [] kind = "modern"     -> TextNode(<<" ">> \o ModernLanguageText)
      [] kind = "unstressed" -> TextNode(UnstressedEndingText \o <<":">>)
      [] kind = "idBlock"    -> Block(TRUE, BlockForm(i), "div", <<>>)
      [] kind = "plainBlock" -> Block(FALSE, BlockForm(i), "span", <<>>)
      [] kind = "noteBlock"  -> Block(FALSE, BlockForm(i), "div", ModernLanguageText)
      [] kind = "emptyDiv"   -> Block(FALSE, NoDiv, "div", <<>>)
      [] kind = "other"      -> OtherTag
      [] kind = "otherBlock" -> OtherBlock(BlockForm(i))

Panel(kinds) ==
    [hasPanel |-> TRUE, inPopover |-> FALSE,
     stream |-> [i \in 1..Len(kinds) |-> StreamNode(kinds[i], i)]]

VariationsInputs(k) ==
    {Panel(kinds) : kinds \in [1..k -> StreamKinds]}
    \cup {[Panel(<<"idBlock">>) EXCEPT !.inPopover = TRUE]}
    \cup {NoPanelTd}

\* The (filterUnstressedEnding, filterModernLanguage) pairs the request
\* handler passes: none, modern-language only, unstressed-ending only.
CallerFilters == {<<FALSE, FALSE>>, <<FALSE, TRUE>>, <<TRUE, FALSE>>}

InitVariations ==
    /\ \E k \in 0..MaxStream : vTd \in VariationsInputs(k)
    /\ \E filters \in CallerFilters :
          /\ vFilterUnstressedEnding = filters[1]
          /\ vFilterModernLanguage = filters[2]
    /\ vOut = <<>>
    /\ vPc = "ready"
    /\ NormalizerIdle
    /\ ExtractorIdle
    /\ PostIdle

\* The call extractVariations(td, $, filterUnstressedEnding, filterModernLanguage).
ExtractVariations ==
    /\ vPc = "ready"
    /\ vOut' = extractVariations(vTd, vFilterUnstressedEnding, vFilterModernLanguage)
    /\ vPc' = "done"
    /\ UNCHANGED <<vTd, vFilterUnstressedEnding, vFilterModernLanguage>>
    /\ UNCHANGED <<normVars, extVars, postVars>>

NextVariations == ExtractVariations

SpecVariations == InitVariations /\ [][NextVariations]_vars

\* ========================================================================
\* Properties of auxiliary-variant extraction
\* ========================================================================

\* The fragment that corresponds to the filter flag that is set.
FlaggedText ==
    IF vFilterModernLanguage THEN ModernLanguageText ELSE UnstressedEndingText

\* Position i of the panel's stream holds the flagged sentence in a text node.
IsSentence(i) ==
    /\ vTd.stream[i].type = "text"
    /\ Includes(vTd.stream[i].data, FlaggedText)

\* Position i holds a non-empty text node without the flagged sentence.
IsOtherText(i) ==
    /\ vTd.stream[i].type = "text"
    /\ Trim(vTd.stream[i].data, " ") # <<>>
    /\ ~Includes(vTd.stream[i].data, FlaggedText)

\* Position i holds a variant block: a child div with a form in it.
IsVariantBlock(i) ==
    /\ vTd.stream[i].type = "tag" /\ vTd.stream[i].name = "div"
    /\ (vTd.stream[i].idDiv \/ vTd.stream[i].form.hasMenukad)

\* The block at position i is in the result (each block has its own spelling).
Yielded(i) == \E k \in 1..Len(vOut) : vOut[k].hn = BlockSpelling(i)

\* The variant block at i follows the sentence at j with no variant block
\* and no non-empty text in between.
ImmediatelyFollows(i, j) ==
    /\ j < i /\ IsSentence(j) /\ IsVariantBlock(i)
    /\ \A m \in (j + 1)..(i - 1) :
          /\ ~IsVariantBlock(m)
          /\ vTd.stream[m].type = "text" => Trim(vTd.stream[m].data, " ") = <<>>

\* C8: boilerplate filtering: when a filter flag is true and the panel's direct
\* content stream holds the corresponding sentence in a text node, the variant
\* block immediately following the sentence yields no Variant, while every
\* variant block before the (first) sentence, and every variant block after
\* the next non-empty text node that does not contain the sentence (no further
\* sentence in between), is yielded.
C8_BoilerplateFiltering ==
    LET n == Len(vTd.stream)
    IN  (/\ vPc = "done" /\ vTd.hasPanel
         /\ (vFilterModernLanguage \/ vFilterUnstressedEnding)
         /\ \E j \in 1..n : IsSentence(j)) =>
            \A i \in 1..n : IsVariantBlock(i) =>
                /\ (\E j \in 1..n : ImmediatelyFollows(i, j)) => ~Yielded(i)
                /\ (\A j \in 1..(i - 1) : ~IsSentence(j)) => Yielded(i)
                /\ (\E j \in 1..n : \E m \in (j + 1)..(i - 1) :
                        /\ IsSentence(j) /\ IsOtherText(m)
                        /\ \A q \in (m + 1)..(i - 1) : ~IsSentence(q))
                      => Yielded(i)

\* The scan suppressed the variant block after the sentence and yielded the
\* variant block after the text that follows.
C8_Witness ==
    /\ vPc = "done" /\ vFilterModernLanguage
    /\ Len(vTd.stream) = 4
    /\ IsSentence(1)
    /\ IsVariantBlock(2) /\ ~Yielded(2)
    /\ IsOtherText(3)
    /\ IsVariantBlock(4) /\ Yielded(4)
    /\ Len(vOut) = 1

\* The call was made with both filters false and has returned.
Unfiltered ==
    vPc = "done" /\ ~vFilterUnstressedEnding /\ ~vFilterModernLanguage

\* The Variant of the block at position i of the stream: its own spelling,
\* the spelling without the diacritic, "aa" stressed on its second character.
BlockVariant(i) ==
    [h |-> <<1488 + i>>, hn |-> BlockSpelling(i), t |-> <<"a", "a">>, ti |-> 1]

\* The child element at position i holds a recognized form-identifier
\* element or, failing that, a pointed-spelling element.
HoldsForm(i) ==
    /\ vTd.stream[i].type = "tag"
    /\ "form" \in DOMAIN vTd.stream[i]
    /\ (vTd.stream[i].idDiv \/ vTd.stream[i].form.hasMenukad)

\* One Variant for each position in keep that holds a form, in document
\* order.
VariantsAt(keep) ==
    LET out[i \in 0..Len(vTd.stream)] ==
            IF i = 0 THEN <<>>
            ELSE IF i \in keep /\ HoldsForm(i)
                 THEN Append(out[i - 1], BlockVariant(i))
                 ELSE out[i - 1]
    IN  out[Len(vTd.stream)]

\* C21 as stated, over the child elements: with both filters false the result
\* is, in document order, one Variant for each direct child of the panel that
\* holds a form-identifier element or a pointed-spelling element, and
\* nothing for any other child; it is empty when the cell has no panel.
C21_AsStated ==
    Unfiltered =>
        IF vTd.hasPanel THEN vOut = VariantsAt(1..Len(vTd.stream))
        ELSE vOut = <<>>

\* C21: with both filters false the result is, in document order of the
\* panel's direct child divs, exactly one Variant for each child div that
\* holds a recognized form-identifier element (extracted as by the Form
\* Extractor) or, failing that, a pointed-spelling element (fallback
\* extraction), and nothing for any other child, a child that is not a div
\* included; when the cell has no panel the result is empty.
C21_UnfilteredExtraction ==
    Unfiltered =>
        IF vTd.hasPanel
        THEN vOut = VariantsAt({i \in 1..Len(vTd.stream) :
                                   /\ vTd.stream[i].type = "tag"
                                   /\ vTd.stream[i].name = "div"})
        ELSE vOut = <<>>

\* An unfiltered call returned two Variants in document order, one found by
\* its identifier and one by the fallback, for a panel that also holds the
\* sentence and a div without a form.
C21_Witness ==
    /\ Unfiltered /\ vTd.hasPanel
    /\ Len(vTd.stream) = 4
    /\ \E i, j \in 1..4 :
          /\ i < j
          /\ HoldsForm(i) /\ ~vTd.stream[i].idDiv /\ vTd.stream[i].name = "div"
          /\ HoldsForm(j) /\ vTd.stream[j].idDiv
          /\ vOut = <<BlockVariant(i), BlockVariant(j)>>
    /\ \E i \in 1..4 : vTd.stream[i].type = "text"
                          /\ Includes(vTd.stream[i].data, ModernLanguageText)
    /\ \E i \in 1..4 : vTd.stream[i].type = "tag" /\ ~HoldsForm(i)

\* The fragments the flags select.
SelectedFragments(filterUnstressedEnding, filterModernLanguage) ==
    (IF filterUnstressedEnding THEN {UnstressedEndingText} ELSE {})
    \cup (IF filterModernLanguage THEN {ModernLanguageText} ELSE {})

\* No direct text node of the panel contains a fragment the flags select.
AbsentFromText(filterUnstressedEnding, filterModernLanguage) ==
    \A fragment \in SelectedFragments(filterUnstressedEnding, filterModernLanguage) :
        \A i \in 1..Len(vTd.stream) :
            vTd.stream[i].type = "text" => ~Includes(vTd.stream[i].data, fragment)

\* C30: a filter flag has no effect when its sentence is absent: for a panel
\* whose text does not contain the fragment selected by the flags,
\* extractVariations with filterUnstressedEnding or filterModernLanguage true
\* returns the Variant list it returns with both flags false; the same holds
\* when the fragment occurs only inside a child element and not in a direct
\* text node of the panel.
C30_AbsentSentence ==
    (vPc = "done" /\ vTd.hasPanel) =>
        /\ AbsentFromText(vFilterUnstressedEnding, vFilterModernLanguage)
              => vOut = extractVariations(vTd, FALSE, FALSE)
        /\ (Unfiltered /\ AbsentFromText(TRUE, TRUE))
              => extractVariations(vTd, TRUE, TRUE) = vOut

\* A call with the modern-language flag set returned the two variant blocks
\* of a panel that holds the sentence inside the first of them only, with
\* the other sentence in a text node in between.
C30_Witness ==
    /\ vPc = "done" /\ vTd.hasPanel
    /\ vFilterModernLanguage
    /\ AbsentFromText(FALSE, TRUE)
    /\ Includes(containerText(vTd.stream), ModernLanguageText)
    /\ Len(vTd.stream) = 3
    /\ vTd.stream[1].type = "tag" /\ vTd.stream[1].note = ModernLanguageText
    /\ vTd.stream[2].type = "text"
    /\ Includes(vTd.stream[2].data, UnstressedEndingText)
    /\ IsVariantBlock(3)
    /\ vOut = <<BlockVariant(1), BlockVariant(3)>>


\* ========================================================================
\* The request handler (POST)
\* ========================================================================

\* The header paragraphs of a page are sequences of words and punctuation
\* marks, white space lying between them; EnDash is the dash U+2013 of
\* "Noun -- ketel pattern, masculine".
EnDash == "--"

Min(S) == CHOOSE x \in S : \A y \in S : x <= y

\* posText.toLowerCase(), on the words the handler looks for.
toLowerCase(text) ==
    [i \in 1..Len(text) |->
        CASE text[i] = "Noun"      -> "noun"
          [] text[i] = "Adjective" -> "adjective"
          [] text[i] = "Verb"      -> "verb"
          [] text[i] = "Pattern"   -> "pattern"
          [] text[i] = "Masculine" -> "masculine"
          [] text[i] = "Feminine"  -> "feminine"
          [] OTHER                 -> text[i]]

\* The places where /<word>\s*--\s*([^,]+?)\s+pattern/i matches and, for a
\* place, the end of its (lazy) group.
PatternEnds(low, i) ==
    {j \in (i + 3)..Len(low) :
        low[j] = "pattern" /\ \A k \in (i + 2)..(j - 1) : low[k] # ","}

PatternStarts(low, word) ==
    {i \in 1..(Len(low) - 1) :
        low[i] = word /\ low[i + 1] = EnDash /\ PatternEnds(low, i) # {}}

\* posText.match(NOUN_REGEX) / posText.match(ADJECTIVE_REGEX): the group of
\* the leftmost match, <<>> for null.
matchPattern(posText, word) ==
    LET low == toLowerCase(posText)
        starts == PatternStarts(low, word)
    IN  IF starts = {} THEN <<>>
        ELSE SubSeq(posText, Min(starts) + 2, Min(PatternEnds(low, Min(starts))) - 1)

NOUN_REGEX(posText) == matchPattern(posText, "noun")

ADJECTIVE_REGEX(posText) == matchPattern(posText, "adjective")

\* The places where /Verb\s*--/i matches.
VerbStarts(low) ==
    {i \in 1..(Len(low) - 1) : low[i] = "verb" /\ low[i + 1] = EnDash}

VERB_REGEX(posText) == VerbStarts(toLowerCase(posText)) # {}

\* A group starting at the word "Verb" itself.
BINYAN_REGEX_WholeMatch(posText) ==
    LET starts == VerbStarts(toLowerCase(posText))
    IN  IF starts = {} THEN <<>>
        ELSE SubSeq(posText, Min(starts), Len(posText))

\* /Verb\s*--\s*(.+)/i : the rest of the text, <<>> for null.
BINYAN_REGEX(posText) ==
    LET starts == VerbStarts(toLowerCase(posText))
    IN  IF starts = {} THEN <<>>
        ELSE SubSeq(posText, Min(starts) + 2, Len(posText))

\* gender: "male", "female", or "" for null.
detectGender(posText) ==
    LET posTextLower == toLowerCase(posText)
    IN  IF Includes(posTextLower, <<"masculine">>) THEN "male"
        ELSE IF Includes(posTextLower, <<"feminine">>) THEN "female"
        ELSE ""

\* detectedPartOfSpeech: "" for null.
detectPartOfSpeech(posText) ==
    IF NOUN_REGEX(posText) # <<>> THEN "noun"
    ELSE IF ADJECTIVE_REGEX(posText) # <<>> THEN "adjective"
    ELSE IF VERB_REGEX(posText) THEN "verb"
    ELSE ""

detectPattern(posText) ==
    LET patternMatch == IF NOUN_REGEX(posText) # <<>> THEN NOUN_REGEX(posText)
                        ELSE ADJECTIVE_REGEX(posText)
    IN  Trim(patternMatch, " ")

detectBinyan(posText) ==
    IF detectPartOfSpeech(posText) = "verb" THEN Trim(BINYAN_REGEX(posText), " ")
    ELSE <<>>

\* A handler that takes an undetected page for a noun.
partOfSpeechToUseOrNoun(partOfSpeech, posText) ==
    IF partOfSpeech # "" THEN partOfSpeech
    ELSE IF detectPartOfSpeech(posText) # "" THEN detectPartOfSpeech(posText)
    ELSE "noun"

\* A handler that prefers the detected part of speech to the supplied one.
partOfSpeechToUsePreferDetected(partOfSpeech, posText) ==
    IF detectPartOfSpeech(posText) # "" THEN detectPartOfSpeech(posText) ELSE partOfSpeech

\* partOfSpeech || detectedPartOfSpeech
partOfSpeechToUse(partOfSpeech, posText) ==
    IF partOfSpeech # "" THEN partOfSpeech ELSE detectPartOfSpeech(posText)

SupportedPartsOfSpeech == {"noun", "adjective", "verb"}

\* root: the letters after "Root:", the hyphens replaced by spaced dashes.
extractRoot(rootText) ==
    IF Len(rootText) >= 2 /\ Head(rootText) = "Root:"
    THEN ReplaceAll(Trim(Tail(rootText), " "), <<"-">>, <<" -- ">>)
    ELSE <<>>


\* --- the form table ---

\* A table cell (td).  conj: it has class conj-td; tdId: its id attribute;
\* divId: the id of the form div it holds ("" for none); form: its first
\* pointed-spelling and transliteration elements; kids: the child elements
\* of its form node; panel: its auxiliary-forms panel.
Cell(conj, tdId, divId, form, kids, panel) ==
    [conj |-> conj, tdId |-> tdId, divId |-> divId, form |-> form,
     kids |-> kids, panel |-> panel]

\* An empty selection of cells.
NoCell == Cell(FALSE, "", "", NoDiv, <<>>, NoPanelTd)

\* A table row: the text of its first th, and its cells.
Row(th, cells) == [th |-> th, cells |-> cells]

\* table.find("td"), in document order.
RECURSIVE Cells(_)
Cells(table) ==
    IF table = <<>> THEN <<>> ELSE Head(table).cells \o Cells(Tail(table))

\* table.find(`td[id="${formId}"]`).first(): its place among the cells, 0
\* for an empty selection.
TdById(cells, formId) ==
    LET hits == {k \in 1..Len(cells) : cells[k].tdId = formId}
    IN  IF hits = {} THEN 0 ELSE Min(hits)

\* table.find(`div[id="${formId}"]`).first(): the place of the cell holding it.
DivById(cells, formId) ==
    LET hits == {k \in 1..Len(cells) : cells[k].divId = formId}
    IN  IF hits = {} THEN 0 ELSE Min(hits)

\* The first row whose th text satisfies the test, 0 for none.
RowWithText(table, label) ==
    LET hits == {r \in 1..Len(table) : Trim(table[r].th, " ") = label}
    IN  IF hits = {} THEN 0 ELSE Min(hits)

RowIncluding(table, label) ==
    LET hits == {r \in 1..Len(table) : Includes(Trim(table[r].th, " "), label)}
    IN  IF hits = {} THEN 0 ELSE Min(hits)

\* $(row).find("td.conj-td")
ConjTds(row) == SelectSeq(row.cells, LAMBDA c : c.conj)

\* The slot value: the data, with the variations attached when there are any.
attachVariations(data, variations) ==
    IF variations # <<>> THEN WithVariations(data, variations) ELSE data

\* --- noun slots ---

\* One column of the "Absolute state" row: the k-th td.conj-td, the form div
\* with the slot's id inside it, the panel of the td.
nounColumn(row, k, formId) ==
    LET tds == ConjTds(row)
        td  == IF Len(tds) >= k THEN tds[k] ELSE NoCell
        div == IF td.divId = formId THEN td.form ELSE NoDiv
    IN  attachVariations(extractFormData(div), extractVariations(td.panel, FALSE, FALSE))

nounSlot(table, k, formId) ==
    LET r == RowWithText(table, <<"Absolute state">>)
    IN  IF r = 0 THEN EmptyForm ELSE nounColumn(table[r], k, formId)

\* --- adjective slots ---

\* findFormData: the place of the td, 0 for null; hasDiv: td.find(div[id])
\* is not empty.
findFormData(table, formId) ==
    LET cells == Cells(table)
        byTd  == TdById(cells, formId)
        byDiv == DivById(cells, formId)
        td    == IF byTd # 0 THEN byTd
                 ELSE IF byDiv # 0 /\ cells[byDiv].conj THEN byDiv
                 ELSE 0
    IN  [td |-> td, hasDiv |-> td # 0 /\ cells[td].divId = formId]

\* The form div and the td itself show extractFormData the same first
\* spelling and transliteration elements.
adjectiveSlot(table, formId) ==
    LET found == findFormData(table, formId)
        td    == Cells(table)[found.td]
    IN  IF found.td = 0 THEN EmptyForm
        ELSE attachVariations(extractFormData(td.form),
                              extractVariations(td.panel, FALSE, FALSE))


\* --- verb slots ---

\* A child div of a form node: its class and the spelling and
\* transliteration elements inside it.
\* A child element of the form node: its tag, its class, and the
\* pointed-spelling and transliteration elements inside it.
Child(tag, cls, form) == [tag |-> tag, cls |-> cls, form |-> form]

\* A child div of the form node.
Kid(cls, form) == Child("div", cls, form)

\* The Variant one child div of the form node contributes.
verbVariation(index, childDiv) ==
    IF index = 0 THEN <<>>
    ELSE IF childDiv.cls \in {"meaning", "aux-forms"} THEN <<>>
    ELSE IF childDiv.form.hasMenukad
         THEN <<[h  |-> extractHebrew(childDiv.form).h,
                 hn |-> extractHebrew(childDiv.form).hn,
                 t  |-> extractTransliteration(childDiv.form).t,
                 ti |-> extractTransliteration(childDiv.form).ti]>>
         ELSE <<>>

\* formDiv.children("div").each(...), from position index on.
RECURSIVE verbVariationsFrom(_, _)
verbVariationsFrom(kids, index) ==
    IF index >= Len(kids) THEN <<>>
    ELSE verbVariation(index, kids[index + 1]) \o verbVariationsFrom(kids, index + 1)

\* extractVerbVariations without the skip of the first child div.
extractVerbVariationsFromFirst(kids) ==
    verbVariationsFrom(SelectSeq(kids, LAMBDA k : k.tag = "div"), 1)
    \o (IF \E i \in 1..Len(kids) : kids[i].tag = "div"
        THEN verbVariation(1, SelectSeq(kids, LAMBDA k : k.tag = "div")[1])
        ELSE <<>>)

\* formDiv.children("div"): the child elements that are divs, in document
\* order, indexed from 0.
extractVerbVariations(kids) ==
    verbVariationsFrom(SelectSeq(kids, LAMBDA k : k.tag = "div"), 0)

\* findFormDataAndTd: the places of the td and of the cell whose form node
\* is handed on as div; td = 0 stands for null.
findFormDataAndTd(table, formId) ==
    LET cells == Cells(table)
        td    == TdById(cells, formId)
        div   == DivById(cells, formId)
    IN  IF td # 0 THEN [td |-> td, div |-> IF div = 0 THEN td ELSE div]
        ELSE IF div # 0 /\ cells[div].conj THEN [td |-> div, div |-> div]
        ELSE [td |-> 0, div |-> 0]

\* One verb slot: the form, the variants nested in the form node, then the
\* variants of the td's panel.
verbSlot(table, formId, filterUnstressedEnding, filterModernLanguage) ==
    LET found == findFormDataAndTd(table, formId)
        cells == Cells(table)
    IN  IF found.td = 0 THEN EmptyForm
        ELSE attachVariations(
                 extractFormData(cells[found.div].form),
                 extractVerbVariations(cells[found.div].kids)
                 \o extractVariations(cells[found.td].panel,
                                      filterUnstressedEnding, filterModernLanguage))

\* A slot of a tense block: looked up when some row's th text includes the
\* label.
tenseSlot(table, label, formId, filterUnstressedEnding, filterModernLanguage) ==
    IF RowIncluding(table, <<label>>) = 0 THEN EmptyForm
    ELSE verbSlot(table, formId, filterUnstressedEnding, filterModernLanguage)

\* '!' in a Hebrew text (code point) and in a transliteration (character).
EXCLAMATION == 33

\* A post-step that leaves the Variants as they were extracted.
removeExclamationMarksPrimaryOnly(form) ==
    LET strip(x) == [h  |-> Trim(ReplaceAll(x.h, <<EXCLAMATION>>, <<>>), SPACE),
                     hn |-> Trim(ReplaceAll(x.hn, <<EXCLAMATION>>, <<>>), SPACE),
                     t  |-> Trim(ReplaceAll(x.t, <<"!">>, <<>>), " "),
                     ti |-> x.ti]
    IN  IF HasVariations(form)
        THEN WithVariations(strip(form), form.variations)
        ELSE strip(form)

removeExclamationMarks(form) ==
    LET strip(x) == [h  |-> Trim(ReplaceAll(x.h, <<EXCLAMATION>>, <<>>), SPACE),
                     hn |-> Trim(ReplaceAll(x.hn, <<EXCLAMATION>>, <<>>), SPACE),
                     t  |-> Trim(ReplaceAll(x.t, <<"!">>, <<>>), " "),
                     ti |-> x.ti]
    IN  IF HasVariations(form)
        THEN WithVariations(strip(form),
                 [i \in 1..Len(form.variations) |-> strip(form.variations[i])])
        ELSE strip(form)


\* --- the aggregate ---

\* The static mapping from the slots of a part of speech to identifiers.
NounSlots == [singular |-> "s", plural |-> "p"]

AdjectiveSlots ==
    [mSingular |-> "ms-a", fSingular |-> "fs-a", mPlural |-> "mp-a", fPlural |-> "fp-a"]

\* label: the row label the slot's block is gated by ("" for none);
\* unstressed, modern: the filter flags handed to extractVariations.
VerbSlot(id, label, unstressed, modern) ==
    [id |-> id, label |-> label, unstressed |-> unstressed, modern |-> modern]

VerbSlots ==
    [infinitive          |-> VerbSlot("INF-L", "", FALSE, FALSE),
     mSingular           |-> VerbSlot("AP-ms", "Present tense", FALSE, FALSE),
     fSingular           |-> VerbSlot("AP-fs", "Present tense", FALSE, FALSE),
     mPlural             |-> VerbSlot("AP-mp", "Present tense", FALSE, FALSE),
     fPlural             |-> VerbSlot("AP-fp", "Present tense", FALSE, FALSE),
     imperativeMSingular |-> VerbSlot("IMP-2ms", "Imperative", FALSE, FALSE),
     imperativeFSingular |-> VerbSlot("IMP-2fs", "Imperative", FALSE, FALSE),
     imperativeMPlural   |-> VerbSlot("IMP-2mp", "Imperative", FALSE, FALSE),
     imperativeFPlural   |-> VerbSlot("IMP-2fp", "Imperative", FALSE, TRUE),
     past1stMSingular    |-> VerbSlot("PERF-1s", "Past tense", FALSE, FALSE),
     past1stMPlural      |-> VerbSlot("PERF-1p", "Past tense", FALSE, FALSE),
     past2ndMSingular    |-> VerbSlot("PERF-2ms", "Past tense", FALSE, FALSE),
     past2ndFSingular    |-> VerbSlot("PERF-2fs", "Past tense", FALSE, FALSE),
     past2ndMPlural      |-> VerbSlot("PERF-2mp", "Past tense", TRUE, FALSE),
     past2ndFPlural      |-> VerbSlot("PERF-2fp", "Past tense", TRUE, FALSE),
     past3rdMSingular    |-> VerbSlot("PERF-3ms", "Past tense", FALSE, FALSE),
     past3rdFSingular    |-> VerbSlot("PERF-3fs", "Past tense", FALSE, FALSE),
     past3rdMPlural      |-> VerbSlot("PERF-3p", "Past tense", FALSE, FALSE),
     future1stMSingular  |-> VerbSlot("IMPF-1s", "Future tense", FALSE, FALSE),
     future1stMPlural    |-> VerbSlot("IMPF-1p", "Future tense", FALSE, FALSE),
     future2ndMSingular  |-> VerbSlot("IMPF-2ms", "Future tense", FALSE, FALSE),
     future2ndFSingular  |-> VerbSlot("IMPF-2fs", "Future tense", FALSE, FALSE),
     future2ndMPlural    |-> VerbSlot("IMPF-2mp", "Future tense", FALSE, FALSE),
     future2ndFPlural    |-> VerbSlot("IMPF-2fp", "Future tense", FALSE, TRUE),
     future3rdMSingular  |-> VerbSlot("IMPF-3ms", "Future tense", FALSE, FALSE),
     future3rdFSingular  |-> VerbSlot("IMPF-3fs", "Future tense", FALSE, FALSE),
     future3rdMPlural    |-> VerbSlot("IMPF-3mp", "Future tense", FALSE, FALSE),
     future3rdFPlural    |-> VerbSlot("IMPF-3fp", "Future tense", FALSE, TRUE)]

ImperativeSlots ==
    {"imperativeMSingular", "imperativeFSingular", "imperativeMPlural", "imperativeFPlural"}

\* The form of one verb slot before the normalizer: the infinitive is looked
\* up anywhere, the others behind their row label; the imperatives then lose
\* their exclamation marks.
verbForm(table, slot) ==
    LET s    == VerbSlots[slot]
        form == IF s.label = ""
                THEN verbSlot(table, s.id, s.unstressed, s.modern)
                ELSE tenseSlot(table, s.label, s.id, s.unstressed, s.modern)
    IN  IF slot \in ImperativeSlots THEN removeExclamationMarks(form) ELSE form

\* "to " as it is searched for in the meaning, and "will ".
TO == <<"t", "o", " ">>
WILL == <<"w", "i", "l", "l", " ">>

\* meaning: the trimmed text of div.lead after the "Meaning" heading.
extractMeaning(doc) == Trim(doc.meaning, " ")

\* String.prototype.replace(pat, rep) with a string pattern: the first
\* occurrence only.
ReplaceFirst(s, pat, rep) ==
    LET i == IndexOf(s, pat, 0)
    IN  IF i = -1 THEN s
        ELSE SubSeq(s, 1, i) \o rep \o SubSeq(s, i + Len(pat) + 1, Len(s))

\* futureMeaning with only the first "to " replaced.
futureMeaningFirstOnly(meaning) == ReplaceFirst(meaning, TO, WILL)

\* (meaning || "").replaceAll("to ", "")
imperativeMeaning(meaning) == ReplaceAll(meaning, TO, <<>>)

\* (meaning || "").replaceAll("to ", "will ")
futureMeaning(meaning) == ReplaceAll(meaning, TO, WILL)

nounResult(url, doc, chToKh, tzToC) ==
    [pos      |-> "noun",
     gender   |-> IF detectGender(doc.posText) # "" THEN detectGender(doc.posText)
                  ELSE "unknown",
     pattern  |-> detectPattern(doc.posText),
     meaning  |-> extractMeaning(doc),
     url      |-> url,
     root     |-> extractRoot(doc.rootText),
     singular |-> applyTransliterationReplacement(
                      nounSlot(doc.table, 1, NounSlots.singular), chToKh, tzToC),
     plural   |-> applyTransliterationReplacement(
                      nounSlot(doc.table, 2, NounSlots.plural), chToKh, tzToC)]

adjectiveResult(url, doc, chToKh, tzToC) ==
    [pos     |-> "adjective",
     pattern |-> detectPattern(doc.posText),
     meaning |-> extractMeaning(doc),
     url     |-> url,
     root    |-> extractRoot(doc.rootText)]
    @@ [slot \in DOMAIN AdjectiveSlots |->
           applyTransliterationReplacement(
               adjectiveSlot(doc.table, AdjectiveSlots[slot]), chToKh, tzToC)]

verbResult(url, doc, chToKh, tzToC) ==
    [pos     |-> "verb",
     binyan  |-> detectBinyan(doc.posText),
     meaning |-> extractMeaning(doc),
     url     |-> url,
     root    |-> extractRoot(doc.rootText),
     imperativeMeaning |-> imperativeMeaning(extractMeaning(doc)),
     futureMeaning     |-> futureMeaning(extractMeaning(doc))]
    @@ [slot \in DOMAIN VerbSlots |->
           applyTransliterationReplacement(verbForm(doc.table, slot), chToKh, tzToC)]


\* --- the requests and pages the handler is run on ---

MaxRows == 2
MaxCells == 2

\* The slot identifiers of a part of speech, and of all of them.
SlotIds(pos) ==
    CASE pos = "noun"      -> {NounSlots[s] : s \in DOMAIN NounSlots}
      [] pos = "adjective" -> {AdjectiveSlots[s] : s \in DOMAIN AdjectiveSlots}
      [] pos = "verb"      -> {VerbSlots[s].id : s \in DOMAIN VerbSlots}

AllSlotIds == UNION {SlotIds(pos) : pos \in SupportedPartsOfSpeech}

PosOfId(id) == CHOOSE pos \in SupportedPartsOfSpeech : id \in SlotIds(pos)

\* The row label a slot identifier is looked up behind ("" for none).
LabelOfId(id) ==
    IF id \in SlotIds("noun") THEN "Absolute state"
    ELSE IF id \in SlotIds("adjective") THEN ""
    ELSE VerbSlots[CHOOSE s \in DOMAIN VerbSlots : VerbSlots[s].id = id].label

\* pa<b>tza</b>ch! -- a form with both patterns, a stress mark and an
\* exclamation mark; and a second spelling for a nested variant.
SampleFormDiv ==
    MkDiv(<<>>, <<1488, 1464, EXCLAMATION>>, <<>>,
          <<TextNode(<<"t", "z", "a">>), TagNode("b", <<TextNode(<<"c", "h">>)>>),
            TextNode(<<"!">>)>>)

SampleVariantDiv ==
    MkDiv(<<>>, <<1489, 1464>>, <<>>,
          <<TextNode(<<"t", "z">>), TagNode("b", <<TextNode(<<"a">>)>>)>>)

\* The cells a table is made of, for a slot identifier: the form div in a
\* conj-td, the same with a nested variant and a panel, the id on the td
\* itself, the form div in a td that is not a conj-td, and conj-tds holding
\* no identifier, without and with a panel (whose block holds no identifier).
CellPool(id) ==
    {Cell(TRUE, "", id, SampleFormDiv, <<>>, NoPanelTd),
     Cell(TRUE, "", id, SampleFormDiv,
          <<Kid("", SampleFormDiv), Kid("", SampleVariantDiv)>>, Panel(<<"plainBlock">>)),
     Cell(TRUE, id, "", SampleFormDiv, <<>>, NoPanelTd),
     Cell(FALSE, "", id, SampleFormDiv, <<>>, NoPanelTd),
     Cell(TRUE, "", "", SampleFormDiv, <<>>, NoPanelTd),
     Cell(TRUE, "", "", NoDiv, <<>>, Panel(<<"plainBlock">>))}

\* The th texts of a table, for a slot identifier: the label of its block
\* (as on the pages, followed by more text), and another text.
ThPool(id) ==
    {IF id \in SlotIds("noun") THEN <<"Absolute state">>
     ELSE IF LabelOfId(id) = "" THEN <<"Forms">>
     ELSE <<LabelOfId(id), "/", "Participle">>,
     <<"Construct state">>}

\* The cells of row r, when rowOf (non-decreasing) tells the row of each cell.
RowCells(cs, rowOf, r) ==
    LET idx == {k \in 1..Len(cs) : rowOf[k] = r}
    IN  [j \in 1..Cardinality(idx) |-> cs[Min(idx) + j - 1]]

NonDecreasing(f, n) == \A k \in 1..(n - 1) : f[k] <= f[k + 1]

\* The table of n rows with the th texts ths, holding the cells cs.
Table(n, ths, cs, rowOf) == [r \in 1..n |-> Row(ths[r], RowCells(cs, rowOf, r))]

\* The ways of laying k cells out in n rows.
RowsOf(k, n) == {f \in [1..k -> 1..n] : NonDecreasing(f, k)}

\* The tables with at most one row and one cell.
SmallTablesOver(cellPool, thPool) ==
    {<<>>} \cup {<<Row(th, <<c>>)>> : th \in thPool, c \in cellPool}


\* The paragraph after the page header: nouns with a pattern and a gender,
\* a noun without a pattern, an adjective, a verb, another part of speech,
\* and no paragraph.
PosTexts ==
    {<<"Noun", EnDash, "ketel", "pattern", ",", "masculine">>,
     <<"Noun", EnDash, "katla", "pattern", ",", "feminine">>,
     <<"Noun", EnDash, "masculine">>,
     <<"Adjective", EnDash, "katul", "pattern">>,
     <<"Verb", EnDash, "PA'AL">>,
     <<"Adverb">>,
     <<>>}

PosTextOf(pos) ==
    CASE pos = "noun"      -> <<"Noun", EnDash, "ketel", "pattern", ",", "masculine">>
      [] pos = "adjective" -> <<"Adjective", EnDash, "katul", "pattern">>
      [] pos = "verb"      -> <<"Verb", EnDash, "PA'AL">>

SampleUrl == "https://www.pealim.com/dict/1-lichtov/"

SampleRootText == <<"Root:", "k", "-", "t", "-", "v">>

\* " to go "
SampleMeaning == <<" ", "t", "o", " ", "g", "o", " ">>

\* A page: how the fetch ends ("ok", "notOk" for a response that is not ok,
\* "throws" for a rejected fetch), and the parts of the document read.
Page(fetch, posText, rootText, meaning, table) ==
    [fetch |-> fetch, posText |-> posText, rootText |-> rootText,
     meaning |-> meaning, table |-> table]

\* An imperative as on the pages: the spelling and the transliteration are
\* followed by a space and an exclamation mark ("ktov !").
ImperativeFormDiv ==
    MkDiv(<<>>, <<1488, 1464, SPACE, EXCLAMATION>>, <<>>,
          <<TextNode(<<"t", "z", "a">>), TagNode("b", <<TextNode(<<"c", "h">>)>>),
            TextNode(<<" ", "!">>)>>)

\* A table holding a form for one slot of each part of speech.
SampleTable ==
    <<Row(<<"Absolute state">>,
          <<Cell(TRUE, "", "s", SampleFormDiv, <<>>, Panel(<<"plainBlock">>)),
            Cell(TRUE, "", "p", SampleFormDiv, <<>>, NoPanelTd)>>),
      Row(<<"Imperative">>,
          <<Cell(TRUE, "ms-a", "", SampleFormDiv, <<>>, NoPanelTd),
            Cell(TRUE, "", "INF-L", SampleFormDiv, <<>>, NoPanelTd),
            Cell(TRUE, "", "IMP-2fp", ImperativeFormDiv,
                 <<Kid("", ImperativeFormDiv), Kid("", ImperativeFormDiv)>>,
                 Panel(<<"modern", "plainBlock">>))>>)>>

\* The slot identifiers run on every table of up to MaxRows rows and
\* MaxCells cells; the others are run on the small tables.
ExploredIds == {"s", "IMP-2fp"}

\* A fetched page of the part of speech of a slot identifier.
SlotPage(id, table) ==
    Page("ok", PosTextOf(PosOfId(id)), SampleRootText, SampleMeaning, table)

\* Every header paragraph and every way the fetch ends, on the sample table.
HeaderPages ==
    {Page(fetch, posText, rootText, meaning, SampleTable) :
        fetch \in {"ok", "notOk", "throws"}, posText \in PosTexts,
        rootText \in {SampleRootText, <<>>}, meaning \in {SampleMeaning, <<>>}}

\* A form with its unpointed spelling after the separator: one
\* pointed/unpointed/transliteration triple.
TripleFormDiv ==
    MkDiv(<<>>, <<1488, 1464>>, <<SPACE, TILDE, SPACE, 1488>>,
          <<TextNode(<<"a">>), TagNode("b", <<TextNode(<<"c", "h">>)>>)>>)

\* The ways a page exposes an identifier: on a form div in a conj-td, on
\* the td itself, on a form div in a td that is not a conj-td.
ExposureShapes == {"div", "td", "loose"}

ExposedCell(id, shape) ==
    CASE shape = "div"   -> Cell(TRUE, "", id, TripleFormDiv, <<>>, NoPanelTd)
      [] shape = "td"    -> Cell(TRUE, id, "", TripleFormDiv, <<>>, NoPanelTd)
      [] shape = "loose" -> Cell(FALSE, "", id, TripleFormDiv, <<>>, NoPanelTd)

\* The identifiers of the infinitive and of the present tense.
PresentIds == <<"AP-ms", "AP-fs", "AP-mp", "AP-fp">>

\* The th texts of the row of the present-tense forms.
PresentThPool == {<<"Present tense", "/", "Participle">>, <<"Participle">>}

\* A verb page exposing INF-L and the four present-tense identifiers, one
\* form each and no panel: the infinitive in a row of its own.
VerbScenarioPage(th, shapes) ==
    Page("ok", <<"Verb", EnDash, "PA'AL">>, SampleRootText, SampleMeaning,
         <<Row(<<>>, <<ExposedCell("INF-L", shapes[1])>>),
           Row(th, [k \in 1..4 |-> ExposedCell(PresentIds[k], shapes[k + 1])])>>)

\* partOfSpeech in the request body: absent, supported, or something else.
SuppliedPartsOfSpeech == {"", "noun", "adjective", "verb", "adverb"}

\* Most child elements of a form node.
MaxKids == 4

\* The child elements a form node is made of: divs with a pointed spelling,
\* a div without one, divs tagged "meaning" and "aux-forms", and an element
\* that is not a div.
ChildPool ==
    {Kid("", SampleVariantDiv), Kid("", TripleFormDiv), Kid("", NoDiv),
     Kid("meaning", SampleVariantDiv), Kid("aux-forms", SampleVariantDiv),
     Child("span", "", SampleVariantDiv)}

\* A verb page whose infinitive form node has the child elements kids.
ContainedPage(kids) ==
    Page("ok", <<"Verb", EnDash, "PA'AL">>, SampleRootText, SampleMeaning,
         <<Row(<<"Infinitive">>,
               <<Cell(TRUE, "", "INF-L", SampleFormDiv, kids, NoPanelTd)>>)>>)

\* Longest text of the meaning paragraph, over the characters of "to ".
MaxMeaning == 7

MeaningChars == {"t", "o", " "}

\* A verb page with a given text in the meaning paragraph and an empty
\* form table.
MeaningPage(meaning) ==
    Page("ok", <<"Verb", EnDash, "PA'AL">>, SampleRootText, meaning, <<>>)

InitPost ==
    /\ \/ /\ \E id \in AllSlotIds :
                \E table \in SmallTablesOver(CellPool(id), ThPool(id)) :
                    page = SlotPage(id, table)
          /\ request = [url |-> SampleUrl, partOfSpeech |-> ""]
          /\ useChToKh = TRUE /\ useTzToC = TRUE
       \/ /\ \E id \in ExploredIds, n \in 0..MaxRows :
                \E ths \in [1..n -> ThPool(id)], k \in 0..MaxCells :
                    \E cs \in [1..k -> CellPool(id)], rowOf \in RowsOf(k, n) :
                        page = SlotPage(id, Table(n, ths, cs, rowOf))
          /\ request = [url |-> SampleUrl, partOfSpeech |-> ""]
          /\ useChToKh = TRUE /\ useTzToC = TRUE
       \/ /\ \E th \in PresentThPool, shapes \in [1..5 -> ExposureShapes] :
                page = VerbScenarioPage(th, shapes)
          /\ request \in [url : {SampleUrl}, partOfSpeech : {"", "verb"}]
          /\ useChToKh = TRUE /\ useTzToC = TRUE
       \/ /\ page \in HeaderPages
          /\ request \in [url : {SampleUrl}, partOfSpeech : SuppliedPartsOfSpeech]
          /\ useChToKh \in BOOLEAN /\ useTzToC \in BOOLEAN
    /\ pPc = "received"
    /\ result = NoResult /\ html = NoHtml /\ response = NoResponse
    /\ nForm = EmptyForm /\ nPrev = EmptyForm /\ nPasses = 0
    /\ ExtractorIdle
    /\ VariationsIdle

\* Two slots of one row, for each part of speech: the row label and the two
\* identifiers.
SlotPairs ==
    {<<<<"Absolute state">>, "s", "p">>,
     <<<<"Singular">>, "ms-a", "fs-a">>,
     <<<<"Present tense", "/", "Participle">>, "AP-ms", "AP-fs">>}

\* The ways a row holds the two slots: both, in either order, one, none.
PairLayouts(a, b) == {<<a, b>>, <<b, a>>, <<a>>, <<b>>, <<>>}

\* A page whose table is one row holding the form divs ids, each in a
\* conj-td of its own.
PairPage(th, ids) ==
    SlotPage(IF ids = <<>> THEN "s" ELSE ids[1],
             <<Row(th, [k \in 1..Len(ids) |->
                          Cell(TRUE, "", ids[k], TripleFormDiv, <<>>, NoPanelTd)])>>)

\* Most characters on either side of the emphasis element of an imperative.
MaxMark == 2

\* The characters around the emphasis element: a letter, the mark.
MarkChars == {"a", "!"}

\* An imperative whose transliteration is before<b>a</b>after.
MarkedFormDiv(before, after) ==
    MkDiv(<<>>, <<1488, 1464, EXCLAMATION>>, <<>>,
          <<TextNode(before), TagNode("b", <<TextNode(<<"a">>)>>), TextNode(after)>>)

\* A verb page whose "Imperative" row holds the masculine singular with the
\* form div form, which is also the second child div of the form node.
ImperativePage(form) ==
    Page("ok", <<"Verb", EnDash, "PA'AL">>, SampleRootText, SampleMeaning,
         <<Row(<<"Imperative">>,
               <<Cell(TRUE, "", "IMP-2ms", form,
                      <<Kid("", form), Kid("", form)>>, NoPanelTd)>>)>>)

\* What variationDiv.find("span.menukad").first() and
\* variationDiv.find("div.transcription").first() select inside an element
\* that holds the panel stream: the first pointed spelling and the first
\* div.transcription, wherever each stands.
PanelForm(stream) ==
    LET holders == {i \in 1..Len(stream) :
                       stream[i].type = "tag" /\ "form" \in DOMAIN stream[i]}
        spelled == {i \in holders : stream[i].form.hasMenukad}
        written == {i \in holders : /\ stream[i].tTag = "div"
                                     /\ stream[i].form.hasTranscription}
        m == IF spelled = {} THEN NoDiv
             ELSE stream[CHOOSE i \in spelled : \A j \in spelled : i <= j].form
        t == IF written = {} THEN NoDiv
             ELSE stream[CHOOSE i \in written : \A j \in written : i <= j].form
    IN  [hasMenukad |-> m.hasMenukad, before |-> m.before,
         menukad |-> m.menukad, after |-> m.after,
         hasTranscription |-> t.hasTranscription, contents |-> t.contents]

\* The child div of a form node that holds the td's panel: div.aux-forms
\* itself, or the div.popover-host wrapped around it.
PanelChild(panel) ==
    Kid(IF panel.inPopover THEN "popover-host" ELSE "aux-forms",
        PanelForm(panel.stream))

\* The kinds of node the panel of a form node is made of.
NestedPanelKinds == {"text", "idBlock", "plainBlock"}

\* Most nodes in the panel of a form node.
MaxNested == 2

\* A verb page whose infinitive has its panel among the child divs of the
\* form node, after the primary form or in front of it; the form node is
\* the div with the identifier, or the td when the td carries it.
NestedPanelPage(panel, tdIsForm, panelFirst) ==
    Page("ok", <<"Verb", EnDash, "PA'AL">>, SampleRootText, SampleMeaning,
         <<Row(<<"Infinitive">>,
               <<Cell(TRUE, IF tdIsForm THEN "INF-L" ELSE "",
                      IF tdIsForm THEN "" ELSE "INF-L", SampleFormDiv,
                      IF panelFirst
                      THEN <<PanelChild(panel), Kid("", SampleFormDiv)>>
                      ELSE <<Kid("", SampleFormDiv), PanelChild(panel)>>,
                      panel)>>)>>)

\* The handler on verb pages whose infinitive has every form node of up to
\* MaxKids child elements, on verb pages with every meaning text of up to
\* MaxMeaning characters, on pages holding one or both slots of a row, on
\* verb pages with every imperative of up to MaxMark characters on either
\* side of the emphasis element, on verb pages with every panel of up to
\* MaxNested nodes inside the form node, and on the header pages.
InitPostContent ==
    /\ \/ /\ \E k \in 1..MaxNested, wrapped \in BOOLEAN,
                 tdIsForm \in BOOLEAN, panelFirst \in BOOLEAN :
                \E kinds \in [1..k -> NestedPanelKinds] :
                    page = NestedPanelPage(
                               [Panel(kinds) EXCEPT !.inPopover = wrapped],
                               tdIsForm, panelFirst)
          /\ request = [url |-> SampleUrl, partOfSpeech |-> ""]
          /\ useChToKh = TRUE /\ useTzToC = TRUE
       \/ /\ \E kb \in 0..MaxMark, ka \in 0..MaxMark :
                \E before \in [1..kb -> MarkChars], after \in [1..ka -> MarkChars] :
                    page = ImperativePage(MarkedFormDiv(before, after))
          /\ request = [url |-> SampleUrl, partOfSpeech |-> ""]
          /\ useChToKh = TRUE /\ useTzToC = TRUE
       \/ /\ \E pair \in SlotPairs :
                \E ids \in PairLayouts(pair[2], pair[3]) :
                    page = PairPage(pair[1], ids)
          /\ request = [url |-> SampleUrl, partOfSpeech |-> ""]
          /\ useChToKh = TRUE /\ useTzToC = TRUE
       \/ /\ \E k \in 0..MaxKids :
                \E kids \in [1..k -> ChildPool] : page = ContainedPage(kids)
          /\ request = [url |-> SampleUrl, partOfSpeech |-> ""]
          /\ useChToKh = TRUE /\ useTzToC = TRUE
       \/ /\ \E k \in 0..MaxMeaning :
                \E meaning \in [1..k -> MeaningChars] : page = MeaningPage(meaning)
          /\ request = [url |-> SampleUrl, partOfSpeech |-> ""]
          /\ useChToKh = TRUE /\ useTzToC = TRUE
       \/ /\ page \in HeaderPages
          /\ request \in [url : {SampleUrl}, partOfSpeech : SuppliedPartsOfSpeech]
          /\ useChToKh \in BOOLEAN /\ useTzToC \in BOOLEAN
    /\ pPc = "received"
    /\ result = NoResult /\ html = NoHtml /\ response = NoResponse
    /\ nForm = EmptyForm /\ nPrev = EmptyForm /\ nPasses = 0
    /\ ExtractorIdle
    /\ VariationsIdle


\* --- the steps of the handler ---

CouldNotDetermine ==
    "Could not determine part of speech. The page does not appear to be a noun, adjective, or verb."

FailedToParse == "Failed to parse page"

\* An error response that always carries status 400.
ErrorResponseBadRequest(status, error) == [status |-> 400, body |-> [error |-> error]]

ErrorResponse(status, error) == [status |-> status, body |-> [error |-> error]]

\* await fetch(url), response.ok, await response.text(), cheerio.load(html)
Fetch ==
    /\ pPc = "received"
    /\ page.fetch = "ok"
    /\ pPc' = "fetched"
    /\ UNCHANGED <<request, page, result, html, response>>
    /\ UNCHANGED <<normVars, extVars, varVars>>

\* The fetch is rejected, or its response is not ok: the outer catch answers.
FetchFailure ==
    /\ pPc = "received"
    /\ page.fetch # "ok"
    /\ response' = ErrorResponse(500, FailedToParse)
    /\ pPc' = "responded"
    /\ UNCHANGED <<request, page, result, html>>
    /\ UNCHANGED <<normVars, extVars, varVars>>

\* The early return: no part of speech to use, or an unsupported one.
RejectPartOfSpeech ==
    /\ pPc = "fetched"
    /\ partOfSpeechToUse(request.partOfSpeech, page.posText) \notin SupportedPartsOfSpeech
    /\ response' = ErrorResponse(400, CouldNotDetermine)
    /\ pPc' = "responded"
    /\ UNCHANGED <<request, page, result, html>>
    /\ UNCHANGED <<normVars, extVars, varVars>>

\* The aggregate of the branch taken.
buildResult(pos, url, doc, chToKh, tzToC) ==
    CASE pos = "noun"      -> nounResult(url, doc, chToKh, tzToC)
      [] pos = "adjective" -> adjectiveResult(url, doc, chToKh, tzToC)
      [] pos = "verb"      -> verbResult(url, doc, chToKh, tzToC)

\* --- the HTML tables ---

\* A row routing the forms to the columns of the other gender.
generateNounHTMLRowSwapped(data) ==
    LET isMasculine == data.gender = "female"
    IN  [mSingular |-> IF isMasculine THEN data.singular ELSE EmptyForm,
         fSingular |-> IF ~isMasculine THEN data.singular ELSE EmptyForm,
         mPlural   |-> IF isMasculine THEN data.plural ELSE EmptyForm,
         fPlural   |-> IF ~isMasculine THEN data.plural ELSE EmptyForm]

\* generateNounHTMLRow: the forms handed to formatHebrewCell for the four
\* columns of the row.
generateNounHTMLRow(data) ==
    LET isMasculine == data.gender = "male"
    IN  [mSingular |-> IF isMasculine THEN data.singular ELSE EmptyForm,
         fSingular |-> IF ~isMasculine THEN data.singular ELSE EmptyForm,
         mPlural   |-> IF isMasculine THEN data.plural ELSE EmptyForm,
         fPlural   |-> IF ~isMasculine THEN data.plural ELSE EmptyForm]

\* The fields of the aggregate handed to the row of a table.
RowFields(table) ==
    CASE table = "adjective"  -> {"mSingular", "fSingular", "mPlural", "fPlural"}
      [] table = "present"    -> {"infinitive", "mSingular", "fSingular", "mPlural", "fPlural"}
      [] table = "imperative" -> ImperativeSlots
      [] table = "past"       ->
            {"past1stMSingular", "past1stMPlural", "past2ndMSingular", "past2ndFSingular",
             "past2ndMPlural", "past2ndFPlural", "past3rdMSingular", "past3rdFSingular",
             "past3rdMPlural"}
      [] table = "future"     ->
            {"future1stMSingular", "future1stMPlural", "future2ndMSingular",
             "future2ndFSingular", "future2ndMPlural", "future2ndFPlural",
             "future3rdMSingular", "future3rdFSingular", "future3rdMPlural",
             "future3rdFPlural"}

HtmlTable(table, data) ==
    [table |-> table, columns |-> [f \in RowFields(table) |-> data[f]]]

\* generateHTML: the tables of the document, each with the forms of its row
\* (the forms of an aggregate are objects, so every table of its part of
\* speech is generated).
generateHTML(data) ==
    CASE data.pos = "noun"      ->
            <<[table |-> "noun", columns |-> generateNounHTMLRow(data)]>>
      [] data.pos = "adjective" -> <<HtmlTable("adjective", data)>>
      [] data.pos = "verb"      ->
            <<HtmlTable("present", data), HtmlTable("imperative", data),
              HtmlTable("past", data), HtmlTable("future", data)>>

\* How generateHTML and saveHTMLFile end: the file is written, writing it
\* throws, or generating the document throws; the inner catch logs the
\* error of either.
RenderOutcomes == {"saved", "saveThrows", "generateThrows"}

\* An htmlContent assigned as soon as the document is generated.
htmlContentBeforeSave(outcome) ==
    IF outcome # "generateThrows" THEN "html" ELSE "null"

\* htmlContent: null at its declaration, assigned the document after
\* saveHTMLFile returned.
htmlContentAfter(outcome) ==
    IF outcome = "saved" THEN "html" ELSE "null"

\* The branch of the part of speech: extraction, normalization, the
\* aggregate, the HTML file, the response.
Parse ==
    /\ pPc = "fetched"
    /\ partOfSpeechToUse(request.partOfSpeech, page.posText) \in SupportedPartsOfSpeech
    /\ result' = buildResult(partOfSpeechToUse(request.partOfSpeech, page.posText),
                             request.url, page, useChToKh, useTzToC)
    /\ \E outcome \in RenderOutcomes :
          /\ html' = [generated |-> outcome # "generateThrows",
                       saved |-> outcome = "saved",
                       tables |-> IF outcome = "generateThrows" THEN <<>>
                                  ELSE generateHTML(result')]
          /\ response' = [status |-> 200,
                          body |-> result' @@
                                   [htmlContent |-> htmlContentAfter(outcome)]]
    /\ pPc' = "responded"
    /\ UNCHANGED <<request, page>>
    /\ UNCHANGED <<normVars, extVars, varVars>>

NextPost == Fetch \/ FetchFailure \/ RejectPartOfSpeech \/ Parse

SpecPostContent == InitPostContent /\ [][NextPost]_vars

SpecPost == InitPost /\ [][NextPost]_vars

\* ========================================================================
\* Properties of the request handler
\* ========================================================================


\* The slots of the aggregate of a part of speech, and the identifier of one.
SlotsOf(pos) ==
    CASE pos = "noun"      -> DOMAIN NounSlots
      [] pos = "adjective" -> DOMAIN AdjectiveSlots
      [] pos = "verb"      -> DOMAIN VerbSlots

IdOfSlot(pos, slot) ==
    CASE pos = "noun"      -> NounSlots[slot]
      [] pos = "adjective" -> AdjectiveSlots[slot]
      [] pos = "verb"      -> VerbSlots[slot].id

\* Some block of the cell's panel holds a div carrying a form identifier.
PanelHoldsId(cell) ==
    \E i \in 1..Len(cell.panel.stream) :
        LET node == cell.panel.stream[i]
        IN  node.type = "tag" /\ node.name = "div" /\ node.idDiv

\* The identifier resolves to an element of the document.
Resolves(id) ==
    \E k \in 1..Len(Cells(page.table)) :
        LET cell == Cells(page.table)[k]
        IN  cell.tdId = id \/ cell.divId = id \/ PanelHoldsId(cell)

\* The handler answered a fetched page of a supported part of speech.
Answered(pos) ==
    /\ pPc = "responded"
    /\ page.fetch = "ok"
    /\ partOfSpeechToUse(request.partOfSpeech, page.posText) = pos

\* The slots of the parts of speech in poss whose identifier does not resolve
\* hold the all-empty form without variations, and the request succeeded.
MissingSlotsEmpty(poss) ==
    \A pos \in poss :
        Answered(pos) =>
            /\ response.status = 200
            /\ \A slot \in SlotsOf(pos) :
                  ~Resolves(IdOfSlot(pos, slot)) =>
                      /\ slot \in DOMAIN result
                      /\ result[slot] = EmptyForm
                      /\ response.body[slot] = EmptyForm

\* C9: for every part of speech and every slot, when the slot's identifier
\* resolves to no element of the document, the aggregate holds the slot with
\* the all-empty form (no spellings, no transliteration, stress offset 0, no
\* variations), and the extraction does not fail.
C9_MissingSlotIsEmpty == MissingSlotsEmpty(SupportedPartsOfSpeech)

\* The same statement for the slots looked up by identifier only
\* (adjectives and verbs).
MissingSlotIsEmpty_ByIdentifier == MissingSlotsEmpty({"adjective", "verb"})

\* No pattern (noun, adjective, verb) matches the header paragraph.
NoPatternMatches ==
    /\ NOUN_REGEX(page.posText) = <<>>
    /\ ADJECTIVE_REGEX(page.posText) = <<>>
    /\ ~VERB_REGEX(page.posText)

\* C10: when no part-of-speech pattern matches the paragraph after the page
\* header of the fetched page and the request supplies no part of speech, the
\* request ends with the "could not determine part of speech" error (status
\* 400), the response body holds the error only, no aggregate is built, and
\* no HTML is generated or saved.
C10_DetectionFailure ==
    (pPc = "responded" /\ page.fetch = "ok"
        /\ request.partOfSpeech = "" /\ NoPatternMatches)
    => /\ response = ErrorResponse(400, CouldNotDetermine)
       /\ DOMAIN response.body = {"error"}
       /\ result = NoResult
       /\ html = NoHtml

\* The handler rejected a noun page whose paragraph names no pattern.
C10_Witness ==
    /\ pPc = "responded" /\ page.fetch = "ok"
    /\ request.partOfSpeech = "" /\ NoPatternMatches
    /\ page.posText = <<"Noun", EnDash, "masculine">>
    /\ response.status = 400


\* The page is the verb scenario: the paragraph reads "Verb -- PA'AL", each
\* of INF-L, AP-ms, AP-fs, AP-mp, AP-fp is carried by exactly one element,
\* with one spelling and one transliteration, and no cell has a panel or a
\* nested variant.
ScenarioIds == {"INF-L", "AP-ms", "AP-fs", "AP-mp", "AP-fp"}

CarriersOf(id) ==
    {k \in 1..Len(Cells(page.table)) :
        Cells(page.table)[k].tdId = id \/ Cells(page.table)[k].divId = id}

IsVerbScenario ==
    /\ page.posText = <<"Verb", EnDash, "PA'AL">>
    /\ \A id \in ScenarioIds :
          /\ Cardinality(CarriersOf(id)) = 1
          /\ \A k \in CarriersOf(id) :
                LET cell == Cells(page.table)[k]
                IN  /\ cell.form.hasMenukad /\ cell.form.hasTranscription
                    /\ Trim(cell.form.menukad, SPACE) # <<>>
    /\ \A k \in 1..Len(Cells(page.table)) :
          /\ ~Cells(page.table)[k].panel.hasPanel
          /\ Len(Cells(page.table)[k].kids) <= 1

\* A populated form without variations.
Populated(form) == form.hn # <<>> /\ form.t # <<>> /\ ~HasVariations(form)

ScenarioAggregate ==
    /\ response.status = 200
    /\ result.pos = "verb"
    /\ result.binyan = <<"PA'AL">>
    /\ result.infinitive.hn # <<>>
    /\ \A slot \in {"mSingular", "fSingular", "mPlural", "fPlural"} :
          Populated(result[slot])

\* Every identifier of the scenario sits on a td or on a div inside a
\* td.conj-td, and some row's header text contains "Present tense".
ScenarioReachable ==
    /\ \A id \in ScenarioIds : \A k \in CarriersOf(id) :
          Cells(page.table)[k].tdId = id \/ Cells(page.table)[k].conj
    /\ RowIncluding(page.table, <<"Present tense">>) # 0

NounColumns == html.tables[1].columns

\* The columns of one gender hold the singular and the plural of the
\* aggregate, those of the other gender the empty form.
RoutedTo(gender) ==
    IF gender = "male"
    THEN /\ NounColumns.mSingular = result.singular /\ NounColumns.mPlural = result.plural
         /\ NounColumns.fSingular = EmptyForm /\ NounColumns.fPlural = EmptyForm
    ELSE /\ NounColumns.fSingular = result.singular /\ NounColumns.fPlural = result.plural
         /\ NounColumns.mSingular = EmptyForm /\ NounColumns.mPlural = EmptyForm

\* C12: in the four-column noun row the singular and the plural go to the
\* columns of the detected gender and the columns of the other gender hold
\* empty forms; for each gender value ("male", "female", "unknown") the
\* columns of exactly one gender are filled, and a noun detected as feminine
\* fills the feminine columns.
C12_NounGenderRouting ==
    (pPc = "responded" /\ result.pos = "noun" /\ html.generated)
    => /\ result.gender \in {"male", "female", "unknown"}
       /\ result.gender = "male" => RoutedTo("male")
       /\ result.gender = "female" => RoutedTo("female")
       /\ RoutedTo("male") \/ RoutedTo("female")
       /\ detectGender(page.posText) = "female" => RoutedTo("female")

\* A noun page detected as feminine was rendered with its forms in the
\* feminine columns.
C12_Witness ==
    /\ pPc = "responded" /\ result.pos = "noun" /\ html.generated
    /\ Includes(page.posText, <<"feminine">>)
    /\ result.gender = "female"
    /\ result.singular.hn # <<>> /\ result.plural.hn # <<>>
    /\ NounColumns.fSingular = result.singular
    /\ NounColumns.mSingular = EmptyForm


\* The part of speech whose pattern the header paragraph matches, the noun
\* pattern tried first, then the adjective one, then the verb one.
Detected ==
    IF NOUN_REGEX(page.posText) # <<>> THEN "noun"
    ELSE IF ADJECTIVE_REGEX(page.posText) # <<>> THEN "adjective"
    ELSE IF VERB_REGEX(page.posText) THEN "verb"
    ELSE ""

\* C14: when the request supplies "noun", "adjective" or "verb", the pos of
\* the returned aggregate is the supplied value whatever the header
\* paragraph matches; when it supplies none, pos is the detected part of
\* speech.
C14_PartOfSpeechUsed ==
    (pPc = "responded" /\ page.fetch = "ok")
    => /\ request.partOfSpeech \in SupportedPartsOfSpeech =>
             /\ response.status = 200
             /\ response.body.pos = request.partOfSpeech
             /\ result.pos = request.partOfSpeech
       /\ (request.partOfSpeech = "" /\ Detected # "") =>
             /\ response.status = 200
             /\ response.body.pos = Detected
             /\ result.pos = Detected

\* A verb page was answered as a noun because the request said "noun".
C14_Witness ==
    /\ pPc = "responded" /\ page.fetch = "ok"
    /\ request.partOfSpeech = "noun" /\ Detected = "verb"
    /\ response.status = 200 /\ response.body.pos = "noun"


\* The verb slots looked up behind a row label.
GatedSlots == {slot \in DOMAIN VerbSlots : VerbSlots[slot].label # ""}

\* Some cell of the row carries the identifier.
RowCarries(row, id) ==
    \E k \in 1..Len(row.cells) : row.cells[k].tdId = id \/ row.cells[k].divId = id

\* C15: for the present, imperative, future and past blocks, the slot
\* identifiers are resolved only inside the row whose header text contains
\* the label of the block (an element carrying the identifier elsewhere in
\* the table is not used, so a slot whose identifier the row does not carry
\* is the empty form); when no row has the label every slot of the block is
\* the empty form.
C15_RowGating ==
    Answered("verb") =>
        \A slot \in GatedSlots :
            LET r == RowIncluding(page.table, <<VerbSlots[slot].label>>)
            IN  /\ r = 0 => result[slot] = EmptyForm
                /\ (r # 0 /\ ~RowCarries(page.table[r], VerbSlots[slot].id)) =>
                       result[slot] = EmptyForm

\* The part of C15 about a missing row: without a row of the label every
\* slot of the block is the empty form.
RowGating_NoRow ==
    Answered("verb") =>
        \A slot \in GatedSlots :
            RowIncluding(page.table, <<VerbSlots[slot].label>>) = 0 =>
                result[slot] = EmptyForm


\* The cell a slot is resolved to when exactly one element carries its
\* identifier and the lookup of its part of speech reaches it: for a noun
\* the form div of the slot's column in the "Absolute state" row, for an
\* adjective or a verb a td, or a form div inside a td.conj-td (behind the
\* row label for a tense block).  <<>> when there is none, else <<cell>>.
ResolvedCell(pos, slot) ==
    LET id    == IdOfSlot(pos, slot)
        cells == Cells(page.table)
        r     == RowWithText(page.table, <<"Absolute state">>)
        k     == IF slot = "singular" THEN 1 ELSE 2
    IN  IF Cardinality(CarriersOf(id)) # 1 THEN <<>>
        ELSE IF pos = "noun"
        THEN IF r # 0 /\ Len(ConjTds(page.table[r])) >= k
                /\ ConjTds(page.table[r])[k].divId = id
             THEN <<ConjTds(page.table[r])[k]>> ELSE <<>>
        ELSE LET cell == cells[CHOOSE c \in CarriersOf(id) : TRUE]
             IN  IF ~(cell.tdId = id \/ cell.conj) THEN <<>>
                 ELSE IF pos = "verb" /\ VerbSlots[slot].label # ""
                         /\ RowIncluding(page.table, <<VerbSlots[slot].label>>) = 0
                      THEN <<>>
                 ELSE <<cell>>

\* The pointed spellings of a list of Variants, as the aggregate shows them
\* (those of an imperative without '!').
SpellingsOf(pos, slot, vs) ==
    [i \in 1..Len(vs) |->
        IF pos = "verb" /\ slot \in ImperativeSlots
        THEN Trim(ReplaceAll(vs[i].hn, <<EXCLAMATION>>, <<>>), SPACE)
        ELSE vs[i].hn]

\* The contained variants of the cell's form node followed by the auxiliary
\* variants of the cell.
BothVariantLists(pos, slot, cell) ==
    extractVerbVariations(cell.kids)
    \o extractVariations(cell.panel,
           pos = "verb" /\ VerbSlots[slot].unstressed,
           pos = "verb" /\ VerbSlots[slot].modern)

\* For the parts of speech in poss, the variations of every resolved slot
\* are the contained variants followed by the auxiliary ones, none dropped,
\* and the list is omitted when there are none.
VariationListComposed(poss) ==
    \A pos \in poss :
        Answered(pos) =>
            \A slot \in SlotsOf(pos) :
                \A cell \in {ResolvedCell(pos, slot)[i] :
                                i \in 1..Len(ResolvedCell(pos, slot))} :
                    LET both == BothVariantLists(pos, slot, cell)
                    IN  IF both = <<>> THEN ~HasVariations(result[slot])
                        ELSE /\ HasVariations(result[slot])
                             /\ Len(result[slot].variations) = Len(both)
                             /\ SpellingsOf(pos, slot, result[slot].variations)
                                    = SpellingsOf(pos, slot, both)

\* C16: for every resolved slot of every part of speech (noun, adjective,
\* verb) the variations list is the result of contained-variant extraction on
\* the form element followed by the result of auxiliary-variant extraction on
\* the enclosing cell, in that order and without de-duplication, and the list
\* is omitted when both are empty.
C16_VariationList == VariationListComposed(SupportedPartsOfSpeech)

\* The same statement for verb slots only.
VariationList_Verb == VariationListComposed({"verb"})

\* A verb slot came back with a contained variant followed by an auxiliary
\* variant of the same spelling.
VariationList_VerbReached ==
    /\ Answered("verb")
    /\ HasVariations(result.imperativeFPlural)
    /\ Len(result.imperativeFPlural.variations) = 2


\* The aggregate fields of the verb slots that have one source form for both
\* genders, each with the feminine field that would complete the grid.
SharedSlots ==
    [past1stMSingular   |-> "past1stFSingular",
     past1stMPlural     |-> "past1stFPlural",
     past3rdMPlural     |-> "past3rdFPlural",
     future1stMSingular |-> "future1stFSingular",
     future1stMPlural   |-> "future1stFPlural"]

\* C17: in the verb aggregate the single Form extracted for each 1st-person
\* slot (past and future, singular and plural) and for the past 3rd-person
\* plural is held by a masculine and by a feminine field, the two equal.
C17_GenderDuplication ==
    Answered("verb") =>
        \A m \in DOMAIN SharedSlots :
            /\ m \in DOMAIN result
            /\ SharedSlots[m] \in DOMAIN result
            /\ result[SharedSlots[m]] = result[m]

\* What the aggregate does hold: one field for each shared slot, named for
\* the masculine, and no feminine field beside it.
SharedSlots_SingleField ==
    Answered("verb") =>
        \A m \in DOMAIN SharedSlots :
            m \in DOMAIN result /\ SharedSlots[m] \notin DOMAIN result


\* The form of a verb slot as extracted, before the imperative post-step and
\* the normalizer.
ExtractedVerbForm(slot) ==
    LET s == VerbSlots[slot]
    IN  IF s.label = ""
        THEN verbSlot(page.table, s.id, s.unstressed, s.modern)
        ELSE tenseSlot(page.table, s.label, s.id, s.unstressed, s.modern)

\* A Form followed by its Variants.
PartsOf(form) ==
    <<form>> \o (IF HasVariations(form) THEN form.variations ELSE <<>>)

\* x with every occurrence of c left out, then trimmed.
Stripped(x, c, sp) == Trim(SelectSeq(x, LAMBDA e : e # c), sp)

\* No occurrence of c, no white space at either end.
Clean(x, c, sp) ==
    /\ \A k \in 1..Len(x) : x[k] # c
    /\ x # <<>> => (x[1] # sp /\ x[Len(x)] # sp)

\* The spellings of the imperative Forms and Variants of the aggregate are
\* clean and are the extracted ones stripped.
ImperativeSpellingsStripped ==
    \A slot \in ImperativeSlots :
        LET e == PartsOf(ExtractedVerbForm(slot))
            r == PartsOf(result[slot])
        IN  /\ Len(r) = Len(e)
            /\ \A i \in 1..Len(r) :
                  /\ Clean(r[i].hn, EXCLAMATION, SPACE) /\ Clean(r[i].h, EXCLAMATION, SPACE)
                  /\ Clean(r[i].t, "!", " ")
                  /\ r[i].hn = Stripped(e[i].hn, EXCLAMATION, SPACE)
                  /\ r[i].h = Stripped(e[i].h, EXCLAMATION, SPACE)

\* The non-imperative Forms are the extracted ones, normalized.
OtherFormsUntouched ==
    \A slot \in DOMAIN VerbSlots \ ImperativeSlots :
        result[slot] =
            applyTransliterationReplacement(ExtractedVerbForm(slot), useChToKh, useTzToC)

\* C18 as stated: the transliteration of an imperative Form or Variant of
\* the returned aggregate equals the extracted one with every '!' removed and
\* then trimmed (and so do the spellings; the other Forms are untouched).
C18_AsStated ==
    Answered("verb") =>
        /\ ImperativeSpellingsStripped
        /\ OtherFormsUntouched
        /\ \A slot \in ImperativeSlots :
              \A i \in 1..Len(PartsOf(result[slot])) :
                  PartsOf(result[slot])[i].t =
                      Stripped(PartsOf(ExtractedVerbForm(slot))[i].t, "!", " ")

\* C18: in the returned verb aggregate the spellings and the transliteration
\* of the four imperative Forms and of their Variants hold no '!' and no
\* white space at the ends; each spelling is the extracted one with every
\* '!' removed and then trimmed, the transliteration is the extracted one so
\* stripped and then normalized (Substitutions A and B as the flags say); no
\* other Form is changed by the step.
C18_ImperativePostStep ==
    Answered("verb") =>
        /\ ImperativeSpellingsStripped
        /\ OtherFormsUntouched
        /\ \A slot \in ImperativeSlots :
              \A i \in 1..Len(PartsOf(result[slot])) :
                  LET e == PartsOf(ExtractedVerbForm(slot))[i]
                  IN  PartsOf(result[slot])[i].t =
                          applyTransliterationReplacement(
                              [e EXCEPT !.t = Stripped(e.t, "!", " ")],
                              useChToKh, useTzToC).t

\* An imperative written "... !" came back without the mark and the space,
\* in the primary Form and in a Variant, while a present-tense form kept its
\* mark.
C18_Witness ==
    /\ Answered("verb")
    /\ HasVariations(result.imperativeFPlural)
    /\ \A i \in 1..2 :
          /\ PartsOf(ExtractedVerbForm("imperativeFPlural"))[i].hn
                = <<1488, 1464, SPACE, EXCLAMATION>>
          /\ PartsOf(result.imperativeFPlural)[i].hn = <<1488, 1464>>
    /\ ExtractedVerbForm("imperativeFPlural").t = <<"t", "z", "a", "c", "h", " ", "!">>
    /\ \E slot \in DOMAIN VerbSlots \ ImperativeSlots :
          \E k \in 1..Len(result[slot].hn) : result[slot].hn[k] = EXCLAMATION


\* --- C19: the meanings of a verb ---

\* The 1-based position i of s lies inside an occurrence of "to ".
InsideTo(s, i) == \E j \in (i - 3)..(i - 1) : OccursAt(s, TO, j)

\* s with every character inside an occurrence of "to " left out, rep being
\* put where each occurrence starts ("to " cannot overlap itself, so the
\* occurrences are disjoint).
EveryToReplaced(s, rep) ==
    LET out[i \in 0..Len(s)] ==
            IF i = 0 THEN <<>>
            ELSE IF OccursAt(s, TO, i - 1) THEN out[i - 1] \o rep
            ELSE IF InsideTo(s, i) THEN out[i - 1]
            ELSE Append(out[i - 1], s[i])
    IN  out[Len(s)]

\* The text of the meaning paragraph of the page, trimmed.
BaseMeaning == Trim(page.meaning, " ")

\* C19: in the aggregate of a verb, meaning is the trimmed text of the
\* meaning paragraph, unchanged; imperativeMeaning is that text with every
\* occurrence of "to " deleted; futureMeaning is that text with every
\* occurrence of "to " replaced by "will ".
C19_VerbMeanings ==
    Answered("verb") =>
        /\ result.meaning = BaseMeaning
        /\ result.imperativeMeaning = EveryToReplaced(BaseMeaning, <<>>)
        /\ result.futureMeaning = EveryToReplaced(BaseMeaning, WILL)

\* A verb is answered whose meaning holds "to " twice.
C19_Witness ==
    /\ Answered("verb")
    /\ \E i, j \in 0..Len(BaseMeaning) :
          i < j /\ OccursAt(BaseMeaning, TO, i) /\ OccursAt(BaseMeaning, TO, j)
    /\ result.meaning = BaseMeaning
    /\ ~Includes(result.futureMeaning, TO)
    /\ Len(result.imperativeMeaning) = Len(BaseMeaning) - 6


\* --- C20: the contained variants of a verb form ---

\* The child elements of the infinitive's form node, on a page that holds
\* the infinitive alone.
InfinitiveKids ==
    IF Len(Cells(page.table)) = 1 /\ Cells(page.table)[1].divId = "INF-L"
    THEN Cells(page.table)[1].kids ELSE <<>>

IsContainedPage ==
    /\ Answered("verb")
    /\ Len(Cells(page.table)) = 1
    /\ Cells(page.table)[1].divId = "INF-L"
    /\ Cells(page.table)[1].conj
    /\ ~Cells(page.table)[1].panel.hasPanel

\* The pointed spellings of the children of kids at the positions in keep
\* that are not tagged "meaning" or "aux-forms" and hold a pointed-spelling
\* element, in document order.
VariantSpellings(kids, keep) ==
    LET out[i \in 0..Len(kids)] ==
            IF i = 0 THEN <<>>
            ELSE IF /\ i \in keep
                    /\ kids[i].cls \notin {"meaning", "aux-forms"}
                    /\ kids[i].form.hasMenukad
                 THEN Append(out[i - 1], Trim(kids[i].form.menukad, SPACE))
                 ELSE out[i - 1]
    IN  out[Len(kids)]

\* The pointed spellings of the variations the infinitive came back with.
ReturnedSpellings ==
    IF HasVariations(result.infinitive)
    THEN [i \in 1..Len(result.infinitive.variations) |->
             result.infinitive.variations[i].hn]
    ELSE <<>>

\* C20 as stated, over the child elements: one Variant, in document order,
\* for each direct child of the form node that is not the first child, is not
\* tagged "meaning" or "aux-forms", and contains a pointed-spelling element.
C20_AsStated ==
    IsContainedPage =>
        ReturnedSpellings
            = VariantSpellings(InfinitiveKids, 2..Len(InfinitiveKids))

\* The positions of the child divs of kids, the first child div left out.
LaterDivs(kids) ==
    {i \in 1..Len(kids) :
        /\ kids[i].tag = "div"
        /\ \E j \in 1..(i - 1) : kids[j].tag = "div"}

\* C20: the contained variants are, in document order, exactly one Variant
\* for each direct child div of the form node that is not the first child
\* div, is not tagged "meaning" or "aux-forms", and contains a
\* pointed-spelling element; none for the first child div, a "meaning" or
\* "aux-forms" child, a child without a pointed-spelling element, or a child
\* that is not a div.
C20_ContainedVariants ==
    IsContainedPage =>
        ReturnedSpellings = VariantSpellings(InfinitiveKids, LaterDivs(InfinitiveKids))

\* A form node came back with two different variants in document order, its
\* first child div holding a pointed spelling and a later child tagged or
\* without a pointed spelling being passed over.
C20_Witness ==
    /\ IsContainedPage
    /\ Len(InfinitiveKids) = 4
    /\ InfinitiveKids[1].tag = "div" /\ InfinitiveKids[1].form.hasMenukad
    /\ \E i \in 2..4 : \/ InfinitiveKids[i].cls \in {"meaning", "aux-forms"}
                       \/ ~InfinitiveKids[i].form.hasMenukad
    /\ Len(ReturnedSpellings) = 2
    /\ ReturnedSpellings[1] # ReturnedSpellings[2]


\* --- C22: slot independence ---

\* The table without the cells of the slot identifier id.
WithoutSlot(table, id) ==
    [r \in 1..Len(table) |->
        Row(table[r].th,
            SelectSeq(table[r].cells, LAMBDA c : c.tdId # id /\ c.divId # id))]

\* The aggregate the handler builds for the page with the cells of id taken
\* out of the table.
ResultWithout(pos, id) ==
    buildResult(pos, request.url,
                [page EXCEPT !.table = WithoutSlot(page.table, id)],
                useChToKh, useTzToC)

\* For the parts of speech in poss: taking the cells of a slot Y out of the
\* document leaves the value of every other slot X as it is.
SlotsIndependent(poss) ==
    \A pos \in poss :
        Answered(pos) =>
            \A y \in SlotsOf(pos) :
                CarriersOf(IdOfSlot(pos, y)) # {} =>
                    \A x \in SlotsOf(pos) :
                        IdOfSlot(pos, x) # IdOfSlot(pos, y) =>
                            ResultWithout(pos, IdOfSlot(pos, y))[x] = result[x]

\* C22: slot independence: two documents that agree on the elements of slot X
\* and differ only in the presence of another slot Y give the same value for
\* X, for every part of speech, the noun singular/plural pair and two slots
\* of one verb row included.
C22_SlotIndependence == SlotsIndependent(SupportedPartsOfSpeech)

\* The same statement for the slots looked up by identifier (adjective and
\* verb).
SlotIndependence_ById == SlotsIndependent({"adjective", "verb"})

\* A verb row holding two slots was answered with both filled.
SlotIndependence_ByIdReached ==
    /\ Answered("verb")
    /\ CarriersOf("AP-ms") # {} /\ CarriersOf("AP-fs") # {}
    /\ Len(Cells(page.table)) = 2
    /\ result.mSingular.hn # <<>> /\ result.fSingular.hn # <<>>


\* --- C25: upstream fetch failure ---

\* C25: when the fetch returns a non-success status or throws, no extraction
\* step runs (the page is never read: no detection, no aggregate, no HTML
\* generated or saved) and the response is the generic failure, whose status
\* differs from the status of the detection-failure response.
C25_FetchFailure ==
    (page.fetch \in {"notOk", "throws"}) =>
        /\ pPc \in {"received", "responded"}
        /\ result = NoResult
        /\ html = NoHtml
        /\ pPc = "responded" =>
              /\ response = [status |-> 500, body |-> [error |-> FailedToParse]]
              /\ response.status # 400
              /\ response.body.error # CouldNotDetermine

\* A failed fetch was answered with the generic failure for a request and a
\* page on which detection would have failed.
C25_Witness ==
    /\ pPc = "responded"
    /\ page.fetch \in {"notOk", "throws"}
    /\ request.partOfSpeech = ""
    /\ detectPartOfSpeech(page.posText) = ""
    /\ response.status = 500


\* --- C27: the stress offset across the imperative post-step ---

\* The number of characters of t in front of the 0-based index i that are
\* not the mark.
UnmarkedBefore(t, i) == Cardinality({k \in 1..i : t[k] # "!"})

\* after is in bounds and its offset indexes the character the offset of
\* before indexed.
OffsetKept(before, after) ==
    /\ InBounds(after)
    /\ before.t[before.ti + 1] # "!"
    /\ after.ti = UnmarkedBefore(before.t, before.ti)
    /\ after.t[after.ti + 1] = before.t[before.ti + 1]

\* The imperative Forms and Variants extracted from the page, each paired
\* with what removeExclamationMarks makes of it.
PostStepPairs ==
    UNION {LET e == PartsOf(ExtractedVerbForm(slot))
               r == PartsOf(removeExclamationMarks(ExtractedVerbForm(slot)))
           IN  {<<e[i], r[i]>> : i \in 1..Len(e)} : slot \in ImperativeSlots}

\* C27: the imperative post-step keeps the stress offset valid: every
\* imperative Form or Variant with 0 <= stressOffset < length(transliteration)
\* before removeExclamationMarks satisfies the same bound after it, and the
\* offset indexes the same character as before.
C27_PostStepKeepsOffset ==
    Answered("verb") =>
        \A pr \in PostStepPairs : InBounds(pr[1]) => OffsetKept(pr[1], pr[2])

\* The same statement for the imperatives whose marks all stand after the
\* stressed character.
PostStepKeepsOffset_MarkAfter ==
    Answered("verb") =>
        \A pr \in PostStepPairs :
            (/\ InBounds(pr[1])
             /\ \A k \in 1..(pr[1].ti + 1) : pr[1].t[k] \notin {"!", " "})
                => OffsetKept(pr[1], pr[2])

\* An imperative and its Variant, written with the mark at the end, went
\* through the post-step and came back in the aggregate.
PostStepKeepsOffset_MarkAfterReached ==
    /\ Answered("verb")
    /\ HasVariations(result.imperativeMSingular)
    /\ \E pr \in PostStepPairs :
          /\ InBounds(pr[1]) /\ pr[1].ti >= 1
          /\ pr[1].t[Len(pr[1].t)] = "!"
          /\ Len(pr[2].t) < Len(pr[1].t)
          /\ result.imperativeMSingular.t = pr[2].t
          /\ result.imperativeMSingular.ti = pr[2].ti

\* --- C28: panel content and the contained variants ---

\* The one cell of a page that holds the infinitive alone.
InfinitiveCell ==
    IF Len(Cells(page.table)) = 1 THEN Cells(page.table)[1] ELSE NoCell

\* The page holds the infinitive alone, and its panel is one of the child
\* divs of the form node.
IsNestedPanelPage ==
    /\ Answered("verb")
    /\ Len(Cells(page.table)) = 1
    /\ "INF-L" \in {Cells(page.table)[1].tdId, Cells(page.table)[1].divId}
    /\ Cells(page.table)[1].panel.hasPanel
    /\ \E i \in 1..Len(InfinitiveCell.kids) :
          InfinitiveCell.kids[i] = PanelChild(InfinitiveCell.panel)

\* The pointed spellings in the panel of the infinitive (each block of a
\* panel has a spelling of its own, none that of the primary form).
PanelSpellings ==
    {InfinitiveCell.panel.stream[i].form.menukad :
        i \in {j \in 1..Len(InfinitiveCell.panel.stream) :
                  /\ InfinitiveCell.panel.stream[j].type = "tag"
                  /\ InfinitiveCell.panel.stream[j].form.hasMenukad}}

\* How many of the variations the infinitive came back with are spelled hn.
TimesReturned(hn) ==
    Cardinality({k \in 1..Len(ReturnedSpellings) : ReturnedSpellings[k] = hn})

\* C28: no source element is reported twice in one slot: contained-variant
\* extraction yields no Variant from content inside the cell's panel, so no
\* panel content is both in the contained and in the auxiliary result of the
\* slot, also when the panel is wrapped in a popover element that is a
\* direct child of the form node and when the cell itself is the form node.
C28_NoDoubleReport ==
    IsNestedPanelPage => \A hn \in PanelSpellings : TimesReturned(hn) <= 1

\* The same statement for the panels that are not wrapped, and for the
\* wrapped ones that are the first child div of the form node.
NoDoubleReport_SkippedChild ==
    (/\ IsNestedPanelPage
     /\ \/ ~InfinitiveCell.panel.inPopover
        \/ InfinitiveCell.kids[1] = PanelChild(InfinitiveCell.panel))
        => \A hn \in PanelSpellings : TimesReturned(hn) <= 1

\* A panel of two variant blocks, a child div.aux-forms of a td that is
\* itself the form node, came back once.
NoDoubleReport_SkippedChildReached ==
    /\ IsNestedPanelPage
    /\ InfinitiveCell.tdId = "INF-L"
    /\ ~InfinitiveCell.panel.inPopover
    /\ InfinitiveCell.kids[2] = PanelChild(InfinitiveCell.panel)
    /\ Cardinality(PanelSpellings) = 2
    /\ \A hn \in PanelSpellings : TimesReturned(hn) = 1


\* --- C29: a failure to render or to save ---

\* The fields of the aggregate of a part of speech that hold a form.
FormFields(pos) ==
    CASE pos = "noun"      -> {"singular", "plural"}
      [] pos = "adjective" -> DOMAIN AdjectiveSlots
      [] pos = "verb"      -> DOMAIN VerbSlots

\* The response carries every field of the aggregate, a form in each slot
\* of the part of speech among them.
CarriesAggregate ==
    /\ DOMAIN response.body = DOMAIN result \cup {"htmlContent"}
    /\ \A f \in DOMAIN result : response.body[f] = result[f]
    /\ {"pos", "meaning", "url", "root"} \subseteq DOMAIN response.body
    /\ \A f \in FormFields(result.pos) :
          /\ f \in DOMAIN response.body
          /\ {"h", "hn", "t", "ti"} \subseteq DOMAIN response.body[f]

\* C29: a rendering or persistence failure does not abort the request: when
\* generateHTML or saveHTMLFile throws, the response still carries the
\* complete aggregate of the part of speech with htmlContent null and a
\* success status; htmlContent is non-null only when both generating and
\* saving succeeded.
C29_RenderFailure ==
    (pPc = "responded" /\ page.fetch = "ok" /\ result # NoResult)
    => /\ response.status = 200
       /\ CarriesAggregate
       /\ ~(html.generated /\ html.saved) => response.body.htmlContent = "null"
       /\ response.body.htmlContent # "null" => (html.generated /\ html.saved)

\* A verb page was answered with its infinitive after the document was
\* generated and saving it threw.
C29_Witness ==
    /\ Answered("verb")
    /\ html.generated /\ ~html.saved
    /\ response.status = 200
    /\ response.body.htmlContent = "null"
    /\ response.body.infinitive.hn # <<>>

\* A noun page was answered after generating the document threw.
RenderFailure_GenerateThrew ==
    /\ Answered("noun")
    /\ ~html.generated
    /\ response.status = 200
    /\ response.body.htmlContent = "null"
    /\ response.body.singular.hn # <<>>

====
